---------------------------- MODULE Spec2Model ----------------------------
(***************************************************************************)
(* Transaction-logging subsystem of gokvs (internal/transact.go): the     *)
(* file-backed TransactionLog, the SQLiteTransactionLogger, their worker  *)
(* goroutines and the replay of the log.                                  *)
(*                                                                         *)
(* Strings are sequences of bytes (naturals), so that formatting a record *)
(* (fmt.Fprintf), scanning it back (fmt.Sscanf) and escaping a value      *)
(* (url.QueryEscape / url.QueryUnescape) are computed as the Go code      *)
(* computes them.                                                          *)
(***************************************************************************)
EXTENDS Naturals, Sequences, FiniteSets, TLC

(***************************************************************************)
(* Program constants                                                       *)
(***************************************************************************)
\* const EventDelete EventType = iota (== 1)
EventDelete == 1
\* const EventPut (== 2)
EventPut == 2
\* events := make(chan Event, 16)
EventsCap == 16
\* errors := make(chan error, 1)
ErrorsCap == 1

\* Bytes that occur in the formats and in the escaping.
TAB == 9
NL == 10
CR == 13
SP == 32
PERCENT == 37
PLUS == 43

(***************************************************************************)
(* Bytes and strings                                                       *)
(***************************************************************************)
\* fmt.isSpace, on the one-byte runes
IsSpace(b) == b \in {9, 10, 11, 12, 13, 32}

IsDigit(b) == b \in 48..57

\* net/url ishex
IsHex(b) == b \in (48..57) \cup (65..70) \cup (97..102)

\* net/url unhex
Unhex(b) == IF b \in 48..57 THEN b - 48
            ELSE IF b \in 97..102 THEN b - 97 + 10
            ELSE b - 65 + 10

\* net/url upperhex[n]
UpperHex(n) == IF n < 10 THEN 48 + n ELSE 55 + n

\* net/url shouldEscape(c, encodeQueryComponent): unreserved bytes are kept
ShouldEscape(b) ==
    ~ (b \in (48..57) \cup (65..90) \cup (97..122) \cup {45, 95, 46, 126})

Drop(s, n) == SubSeq(s, n + 1, Len(s))

Take(s, n) == SubSeq(s, 1, n)

\* url.QueryEscape: ' ' becomes '+', a byte to escape becomes %XX
EscapeByte(c) ==
    IF c = SP THEN <<PLUS>>
    ELSE IF ShouldEscape(c)
         THEN <<PERCENT, UpperHex(c \div 16), UpperHex(c % 16)>>
         ELSE <<c>>

RECURSIVE QueryEscape(_)
QueryEscape(s) ==
    IF s = <<>> THEN <<>>
    ELSE EscapeByte(Head(s)) \o QueryEscape(Tail(s))

\* url.QueryUnescape, first pass: every '%' is followed by two hex digits
RECURSIVE EscapeValid(_)
EscapeValid(s) ==
    IF s = <<>> THEN TRUE
    ELSE IF Head(s) = PERCENT
         THEN /\ Len(s) >= 3
              /\ IsHex(s[2])
              /\ IsHex(s[3])
              /\ EscapeValid(Drop(s, 3))
         ELSE EscapeValid(Tail(s))

\* url.QueryUnescape, second pass: %XX becomes the byte, '+' becomes ' '
RECURSIVE UnescapeBytes(_)
UnescapeBytes(s) ==
    IF s = <<>> THEN <<>>
    ELSE IF Head(s) = PERCENT
         THEN <<Unhex(s[2]) * 16 + Unhex(s[3])>> \o UnescapeBytes(Drop(s, 3))
         ELSE IF Head(s) = PLUS
              THEN <<SP>> \o UnescapeBytes(Tail(s))
              ELSE <<Head(s)>> \o UnescapeBytes(Tail(s))

\* url.QueryUnescape: (value, err)
QueryUnescape(s) ==
    IF EscapeValid(s) THEN [ok |-> TRUE, val |-> UnescapeBytes(s)]
    ELSE [ok |-> FALSE, val |-> <<>>]

\* the %d verb of fmt.Fprintf on an unsigned integer
RECURSIVE FormatUint(_)
FormatUint(n) ==
    IF n < 10 THEN <<48 + n>>
    ELSE FormatUint(n \div 10) \o <<48 + (n % 10)>>

\* fmt.Fprintf(l.file, "%d\t%d\t%s\t%s\n", l.lastSequence, e.EventType, e.Key, e.Value)
FormatRecord(seq, type, key, value) ==
    FormatUint(seq) \o <<TAB>> \o FormatUint(type) \o <<TAB>>
        \o key \o <<TAB>> \o value \o <<NL>>


(***************************************************************************)
(* bufio.Scanner with ScanLines over the whole file                        *)
(***************************************************************************)
\* bufio.dropCR
DropCR(line) ==
    IF line # <<>> /\ line[Len(line)] = CR THEN Take(line, Len(line) - 1)
    ELSE line

\* index of the first newline of s, 0 when there is none
RECURSIVE IndexNL(_, _)
IndexNL(s, i) ==
    IF i > Len(s) THEN 0
    ELSE IF s[i] = NL THEN i ELSE IndexNL(s, i + 1)

\* the tokens scanner.Scan() yields: the lines without their terminator, and
\* a final non-empty line that has none
RECURSIVE ScanLines(_)
SplitAt(data, i) ==
    IF i = 0 THEN <<DropCR(data)>>
    ELSE <<DropCR(Take(data, i - 1))>> \o ScanLines(Drop(data, i))

ScanLines(data) ==
    IF data = <<>> THEN <<>> ELSE SplitAt(data, IndexNL(data, 1))

(***************************************************************************)
(* fmt.Sscanf(line, "%d\t%d\t%s\t%s", &e.Sequence, &e.EventType, &e.Key,   *)
(* &e.Value)                                                               *)
(***************************************************************************)
\* ss.SkipSpace on a line (a line holds no newline)
RECURSIVE SkipSpace(_)
SkipSpace(s) ==
    IF s # <<>> /\ IsSpace(Head(s)) THEN SkipSpace(Tail(s)) ELSE s

\* length of the longest prefix of s made of digits
RECURSIVE DigitsLen(_)
DigitsLen(s) ==
    IF s # <<>> /\ IsDigit(Head(s)) THEN 1 + DigitsLen(Tail(s)) ELSE 0

\* length of the longest prefix of s without a space (ss.token with notSpace)
RECURSIVE TokenLen(_)
TokenLen(s) ==
    IF s # <<>> /\ ~ IsSpace(Head(s)) THEN 1 + TokenLen(Tail(s)) ELSE 0

\* strconv.ParseUint(tok, 10, 64) of a token of digits
RECURSIVE ParseUint(_, _)
ParseUint(tok, acc) ==
    IF tok = <<>> THEN acc
    ELSE ParseUint(Tail(tok), acc * 10 + (Head(tok) - 48))

\* ss.scanUint(verb 'd', bitSize) on the input t that follows the spaces:
\* notEOF (io.EOF at the end of the input), scanNumber ("expected integer")
\* over the n leading digits, and the overflow check of bitSize bits
\* ("unsigned integer overflow on token").  st is "ok", "eof" or "err".
\* The numbers of the model stay far below 2^64, the range of ParseUint.
ScanUintTok(t, n, bitSize) ==
    IF t = <<>> THEN [st |-> "eof", val |-> 0, rest |-> t]
    ELSE IF n = 0 THEN [st |-> "err", val |-> 0, rest |-> t]
    ELSE IF bitSize < 31 /\ ParseUint(Take(t, n), 0) >= 2 ^ bitSize
    THEN [st |-> "err", val |-> 0, rest |-> Drop(t, n)]
    ELSE [st |-> "ok", val |-> ParseUint(Take(t, n), 0), rest |-> Drop(t, n)]

\* ss.scanUint: SkipSpace first
ScanUintAt(t, bitSize) == ScanUintTok(t, DigitsLen(t), bitSize)

ScanUint(s, bitSize) == ScanUintAt(SkipSpace(s), bitSize)

\* ss.convertString(verb 's') on the input t that follows the spaces:
\* notEOF, then the next word
ScanStringAt(t) ==
    IF t = <<>> THEN [st |-> "eof", val |-> <<>>, rest |-> t]
    ELSE [st |-> "ok", val |-> Take(t, TokenLen(t)),
          rest |-> Drop(t, TokenLen(t))]

\* ss.convertString: SkipSpace first
ScanString(s) == ScanStringAt(SkipSpace(s))

\* ss.advance on the "\t" of the format: one or more spaces, or the end of
\* the input; anything else is "expected space in input to match format"
AdvanceSpace(s) ==
    IF s = <<>> THEN [st |-> "ok", rest |-> s]
    ELSE IF ~ IsSpace(Head(s)) THEN [st |-> "err", rest |-> s]
    ELSE [st |-> "ok", rest |-> SkipSpace(s)]

\* what doScanf returns when a verb or the format stops the scan: the items
\* parsed so far, and io.EOF when the input ran out at a verb
ScanStop(n, st, e) ==
    [n |-> n, err |-> IF st = "eof" THEN "EOF" ELSE "err", e |-> e]

\* fmt.Sscanf(line, "%d\t%d\t%s\t%s", &e.Sequence, &e.EventType, &e.Key,
\* &e.Value), one verb or format space at a time: r is what the verb scanned,
\* a what the format space matched.  A field that is not reached keeps the
\* value e had.
ScanValue(e, r) ==
    IF r.st # "ok" THEN ScanStop(3, r.st, e)
    ELSE [n |-> 4, err |-> "nil", e |-> [e EXCEPT !.Value = r.val]]

ScanSpace3(e, a) ==
    IF a.st # "ok" THEN ScanStop(3, "err", e)
    ELSE ScanValue(e, ScanString(a.rest))

ScanKey(e, r) ==
    IF r.st # "ok" THEN ScanStop(2, r.st, e)
    ELSE ScanSpace3([e EXCEPT !.Key = r.val], AdvanceSpace(r.rest))

ScanSpace2(e, a) ==
    IF a.st # "ok" THEN ScanStop(2, "err", e)
    ELSE ScanKey(e, ScanString(a.rest))

ScanEventType(e, r) ==
    IF r.st # "ok" THEN ScanStop(1, r.st, e)
    ELSE ScanSpace2([e EXCEPT !.EventType = r.val], AdvanceSpace(r.rest))

ScanSpace1(e, a) ==
    IF a.st # "ok" THEN ScanStop(1, "err", e)
    ELSE ScanEventType(e, ScanUint(a.rest, 8))

ScanSequence(e, r) ==
    IF r.st # "ok" THEN ScanStop(0, r.st, e)
    ELSE ScanSpace1([e EXCEPT !.Sequence = r.val], AdvanceSpace(r.rest))

\* One Sscanf call on `line` into the Event `e`: n is the number of items
\* parsed, err is "nil", "EOF" (io.EOF) or "err" (any other error), and e is
\* the Event afterwards.
Sscanf(line, e) == ScanSequence(e, ScanUint(line, 64))

\* var e Event, declared once before the scan loop of ReadEvents
ZeroEvent == [Sequence |-> 0, EventType |-> 0, Key |-> <<>>, Value |-> <<>>]

\* the loop body after the sanity checks: url.QueryUnescape(e.Value), then
\* e.Value = uv, l.lastSequence = e.Sequence and the send on outEvent
EmitScanned(e, uv, last) ==
    IF ~ uv.ok
    THEN [err |-> "value decoding failure", e |-> e, last |-> last]
    ELSE [err |-> "nil", e |-> [e EXCEPT !.Value = uv.val],
          last |-> e.Sequence]

\* the checks with a sequence check that lets a repeated number through
CheckScannedRepeat(r, last) ==
    IF r.err # "nil" /\ r.err # "EOF"
    THEN [err |-> "input parse error", e |-> r.e, last |-> last]
    ELSE IF r.err = "nil" /\ r.n < 4
    THEN [err |-> "input wrong number parsed", e |-> r.e, last |-> last]
    ELSE IF last > r.e.Sequence
    THEN [err |-> "transaction numbers out of sequence", e |-> r.e,
          last |-> last]
    ELSE EmitScanned(r.e, QueryUnescape(r.e.Value), last)

\* the checks of the loop body on what Sscanf returned (r)
CheckScanned(r, last) ==
    IF r.err # "nil" /\ r.err # "EOF"
    THEN [err |-> "input parse error", e |-> r.e, last |-> last]
    ELSE IF r.err = "nil" /\ r.n < 4
    THEN [err |-> "input wrong number parsed", e |-> r.e, last |-> last]
    ELSE IF last >= r.e.Sequence
    THEN [err |-> "transaction numbers out of sequence", e |-> r.e,
          last |-> last]
    ELSE EmitScanned(r.e, QueryUnescape(r.e.Value), last)

\* One iteration of the scan loop of TransactionLog.ReadEvents on `line`,
\* with the loop's Event `e` and the logger's lastSequence `last`.
\* err is "nil" when the event e is sent on outEvent, otherwise the error
\* sent on outError before the goroutine returns.
ScanLine(line, e, last) == CheckScanned(Sscanf(line, e), last)

(***************************************************************************)
(* Replay of a whole log by a consumer that receives until the channels    *)
(* are closed                                                              *)
(***************************************************************************)
\* the scan loop of TransactionLog.ReadEvents over `lines`; r is what the
\* iteration on the first of them did
RECURSIVE ScanLoop(_, _, _, _)
ScanNext(lines, r, last, out) ==
    IF r.err # "nil" THEN [events |-> out, err |-> r.err, last |-> last]
    ELSE ScanLoop(Tail(lines), r.e, r.last, Append(out, r.e))

ScanLoop(lines, e, last, out) ==
    IF lines = <<>> THEN [events |-> out, err |-> "nil", last |-> last]
    ELSE ScanNext(lines, ScanLine(Head(lines), e, last), last, out)

\* TransactionLog.ReadEvents: Seek(0, 0) fails on a closed file
FileReadEvents(data, open, last) ==
    IF ~ open
    THEN [events |-> <<>>, err |-> "failed to seek to start of file",
          last |-> last]
    ELSE ScanLoop(ScanLines(data), ZeroEvent, last, <<>>)

\* the rows.Next() loop of SQLiteTransactionLogger.ReadEvents: var e Event is
\* declared inside the loop; uv is url.QueryUnescape of the row's value
RECURSIVE RowLoop(_, _, _)
RowNext(rows, row, uv, last, out) ==
    IF ~ uv.ok
    THEN [events |-> out, err |-> "value decoding failure", last |-> last]
    ELSE RowLoop(Tail(rows), row.id,
                 Append(out, [Sequence |-> row.id, EventType |-> row.type,
                              Key |-> row.key, Value |-> uv.val]))

RowLoop(rows, last, out) ==
    IF rows = <<>> THEN [events |-> out, err |-> "nil", last |-> last]
    ELSE RowNext(rows, Head(rows), QueryUnescape(Head(rows).value), last, out)

\* SQLiteTransactionLogger.ReadEvents: the query fails on a closed database
SQLiteReadEvents(rows, open, last) ==
    IF ~ open
    THEN [events |-> <<>>, err |-> "failed to query events", last |-> last]
    ELSE RowLoop(rows, last, <<>>)

(***************************************************************************)
(* Bounds of the model                                                     *)
(***************************************************************************)
\* WritePut/WriteDelete calls over a whole run
MaxCalls == 2
\* logger instances opened one after the other on the same storage
MaxInstances == 2
\* writes the environment makes fail although the handle is open
MaxFailures == 1

\* the goroutines that call WritePut and WriteDelete (the HTTP handlers)
Writers == {"w1", "w2"}
\* "k"
Keys == {<<107>>}
\* "", "a"
Values == {<<>>, <<97>>}

\* lines of a log file that no logger wrote
MaxLines == 2
\* what a damaged or crafted log file holds in the place of a sequence
\* number ("1", "2", "x"), of an event type ("1", "2"), of a key ("k") and of
\* a value ("", "a", "%")
SeqFields == {<<49>>, <<50>>, <<120>>}
TypeFields == {<<49>>, <<50>>}
KeyFields == {<<107>>}
ValueFields == {<<>>, <<97>>, <<37>>}

\* fields joined by the "\t" of the record format
RECURSIVE JoinTab(_)
JoinTab(fields) ==
    IF fields = <<>> THEN <<>>
    ELSE IF Len(fields) = 1 THEN Head(fields)
    ELSE Head(fields) \o <<TAB>> \o JoinTab(Tail(fields))

\* the lines: the first n fields of a record, for n from none to all four
CraftedLines ==
    {JoinTab(SubSeq(<<s, t, k, v>>, 1, n)) :
        s \in SeqFields, t \in TypeFields, k \in KeyFields, v \in ValueFields,
        n \in 0..4}

\* the bytes of a file of these lines, each ended by "\n"
RECURSIVE FileOf(_)
FileOf(lines) ==
    IF lines = <<>> THEN <<>>
    ELSE Head(lines) \o <<NL>> \o FileOf(Tail(lines))

CraftedFiles ==
    {FileOf(ls) : ls \in UNION {[1..n -> CraftedLines] : n \in 0..MaxLines}}

(***************************************************************************)
(* State                                                                   *)
(***************************************************************************)
VARIABLES
    backend,       \* "file" (TransactionLog) or "sqlite" (SQLiteTransactionLogger)
    file,          \* the bytes of the transaction log file
    table,         \* the rows of transaction_events, in sequence_id order
    inst,          \* number of the live logger instance
    handle,        \* l.file / l.db of the live instance: "open" or "closed"
    closedBy,      \* what closed the handle: "none", "Close", "abrupt", "panic"
    lastSequence,  \* l.lastSequence
    events,        \* l.events: st is "nil", "open" or "closed"; buf its buffer
    errors,        \* the buffer of l.errors
    wg,            \* the counter of l.wg
    worker,        \* the goroutine of Run: its pc and the event e it holds
    wpc,           \* where each writer is: "idle", "send" or "blocked"
    cev,           \* the event a writer is sending
    mpc,           \* where the main goroutine (Run, ReadEvents, Wait, Close) is
    snap,          \* the calls that had returned when main invoked Wait or Close
    replay,        \* what the ReadEvents call of the live instance delivered
    calls,         \* every WritePut/WriteDelete call made, in wg.Add order
    recvd,         \* the calls in the order the worker received their events
    written,       \* the calls of the records in storage, in storage order
    acked,         \* how many records were in storage when Wait() last returned
    ended,         \* how the handle of each earlier instance was closed
    fails,         \* writes the environment made fail so far
    store,         \* store.m of core.go: the keys it holds and their values
    req,           \* the event each HTTP handler has applied and not yet logged
    rd,            \* the goroutine of a ReadEvents call, see NoReader
    out,           \* outEvent and outError of that call
    emitted,       \* the events received from outEvent, in order
    cons,          \* initializeTransactionLog: its pc, err, ok and count
    mig,           \* MigrateFileToSQLite: its pc and what it returned
    disk,          \* the log file's path: whether it exists, and the archive
    mutex,         \* the sync.RWMutex of store: its writer and its readers
    op,            \* the Get, Put or Delete call each goroutine is in
    hist,          \* the Put and Delete calls in the order they took effect
    phases,        \* where Close() was when each call on a closing logger started
    earlier        \* the goroutines of earlier Run() calls, and their channels

\* the logger, its storage and what is recorded about its calls
core == <<backend, file, table, inst, handle, closedBy, lastSequence, events,
          errors, wg, worker, wpc, cev, mpc, snap, replay, calls, recvd,
          written, acked, ended, fails>>

\* the server, the streaming replay and the migration around the logger
\* the map of core.go under concurrent calls
kv == <<mutex, op, hist>>

ext == <<store, req, rd, out, emitted, cons, mig, disk, kv, phases, earlier>>

vars == <<core, ext>>

NoEvent == [id |-> 0, EventType |-> 0, Key |-> <<>>, Value |-> <<>>]

NoReplay == [st |-> "none", events |-> <<>>, err |-> "nil"]

\* main is in none of the public methods
MainFree == mpc \in {"idle", "waited", "closed"}

\* a panic of any goroutine ends the process
Crashed == closedBy = "panic"

\* the calls of the live instance that have returned
Returned == {i \in 1..Len(calls) : calls[i].inst = inst /\ calls[i].returned}

\* SELECT MAX(sequence_id) FROM transaction_events, 0 for NULL
MaxSequenceId(rows) == IF rows = <<>> THEN 0 ELSE rows[Len(rows)].id

\* sequence_id INTEGER PRIMARY KEY AUTOINCREMENT: rows are never deleted
NextRowId(rows) == MaxSequenceId(rows) + 1

\* NewTransactionLogger leaves lastSequence at its zero value;
\* NewSQLiteTransactionLogger calls loadLastSequence
NewLastSequence(b, rows) == IF b = "file" THEN 0 ELSE MaxSequenceId(rows)

\* no ReadEvents call made.  pc is where the goroutine of the call is, src
\* the backend it reads, lines the lines or rows left to read, e the Event
\* of the loop, last the lastSequence it compares with, own whether that is
\* the running logger's, pending the event it is sending on outEvent, err
\* the error it is sending on outError, errs the errors it has sent
NoReader ==
    [pc |-> "none", src |-> "file", lines |-> <<>>, e |-> ZeroEvent,
     last |-> 0, own |-> FALSE, pending |-> ZeroEvent, err |-> "nil",
     errs |-> 0]

\* outError is buffered for one error; errClosed and evClosed tell whether
\* outError and outEvent are closed
NoChannels == [err |-> <<>>, errClosed |-> FALSE, evClosed |-> FALSE]

\* MigrateFileToSQLite not called: pc is where the call is, result what it
\* returned, inst the logger instance it runs on, file0 and table0 the file
\* and the rows it found, prev what the call before it returned
NoMigration ==
    [pc |-> "none", result |-> "none", inst |-> 0, file0 |-> <<>>,
     table0 |-> <<>>, prev |-> "none"]

\* make(map[string]string)
\* a goroutine that is in no call of core.go.  pc is where the goroutine
\* is in the call, fn the function, at the number of Put and Delete calls
\* that had taken effect when this one did, ok the `ok` of the map read,
\* value and err what the call returns
NoCall == [pc |-> "idle", fn |-> "none", key |-> <<>>, value |-> <<>>,
           ok |-> FALSE, err |-> "nil", at |-> 0]

EmptyStore == [k \in {} |-> <<>>]

\* nothing around the logger has started: an empty map, no handler at work,
\* no replay stream, no start-up and no migration under way, the log file
\* in its place
InitExt ==
    /\ store = EmptyStore
    /\ req = [w \in Writers |-> NoEvent]
    /\ rd = NoReader
    /\ out = NoChannels
    /\ emitted = <<>>
    /\ cons = [pc |-> "none", err |-> "nil", ok |-> TRUE, count |-> 0]
    /\ mig = NoMigration
    /\ disk = [exists |-> TRUE, archived |-> FALSE]
    /\ mutex = [w |-> "none", r |-> {}]
    /\ op = [g \in Writers |-> NoCall]
    /\ hist = <<>>
    /\ phases = <<>>
    /\ earlier = <<>>

Init ==
    /\ InitExt
    /\ backend \in {"file", "sqlite"}
    /\ file = <<>>
    /\ table = <<>>
    /\ inst = 1
    /\ handle = "open"
    /\ closedBy = "none"
    /\ lastSequence = 0
    /\ events = [st |-> "nil", buf |-> <<>>]
    /\ errors = <<>>
    /\ wg = 0
    /\ worker = [pc |-> "none", e |-> NoEvent]
    /\ wpc = [w \in Writers |-> "idle"]
    /\ cev = [w \in Writers |-> NoEvent]
    /\ mpc = "idle"
    /\ snap = {}
    /\ replay = NoReplay
    /\ calls = <<>>
    /\ recvd = <<>>
    /\ written = <<>>
    /\ acked = 0
    /\ ended = <<>>
    /\ fails = 0

(***************************************************************************)
(* Opening and starting a logger                                           *)
(***************************************************************************)
\* NewTransactionLogger / NewSQLiteTransactionLogger on the storage an
\* earlier instance has let go of (one live instance at a time).  The
\* goroutines of the earlier instance hold a closed handle and cannot reach
\* the storage any more.
OpenNew ==
    /\ handle = "closed"
    /\ inst < MaxInstances
    /\ Crashed \/ (MainFree /\ \A w \in Writers : wpc[w] = "idle")
    /\ inst' = inst + 1
    /\ ended' = Append(ended, closedBy)
    /\ handle' = "open"
    /\ closedBy' = "none"
    /\ lastSequence' = NewLastSequence(backend, table)
    /\ events' = [st |-> "nil", buf |-> <<>>]
    /\ errors' = <<>>
    /\ wg' = 0
    /\ worker' = [pc |-> "none", e |-> NoEvent]
    /\ wpc' = [w \in Writers |-> "idle"]
    /\ cev' = [w \in Writers |-> NoEvent]
    /\ mpc' = "idle"
    /\ snap' = {}
    /\ replay' = NoReplay
    /\ UNCHANGED <<backend, file, table, calls, recvd, written, acked, fails>>
    /\ UNCHANGED ext

\* Run(): makes the two channels and starts the worker goroutine, which in
\* the SQLite logger first prepares the INSERT statement
Run ==
    /\ ~ Crashed
    /\ MainFree
    /\ events.st = "nil"
    /\ events' = [st |-> "open", buf |-> <<>>]
    /\ errors' = <<>>
    /\ worker' = [pc |-> IF backend = "sqlite" THEN "prepare" ELSE "recv",
                  e |-> NoEvent]
    /\ UNCHANGED <<backend, file, table, inst, handle, closedBy, lastSequence,
                   wg, wpc, cev, mpc, snap, replay, calls, recvd, written,
                   acked, ended, fails>>
    /\ UNCHANGED ext

(***************************************************************************)
(* The writers: WritePut, WriteDelete                                      *)
(***************************************************************************)
\* a panic: the process dies and its handles are closed with it
Panic ==
    /\ closedBy' = "panic"
    /\ handle' = "closed"

\* l.wg.Add(1), then the Event that the send statement will send
WriteStart(w, type, key, value, sent) ==
    /\ ~ Crashed
    /\ wpc[w] = "idle"
    /\ wg' = wg + 1
    /\ calls' = Append(calls, [caller |-> w, inst |-> inst, EventType |-> type,
                               Key |-> key, Value |-> value,
                               returned |-> FALSE, state |-> "pending"])
    /\ cev' = [cev EXCEPT ![w] = [id |-> Len(calls) + 1, EventType |-> type,
                                  Key |-> key, Value |-> sent]]
    /\ wpc' = [wpc EXCEPT ![w] = "send"]
    /\ UNCHANGED <<backend, file, table, inst, handle, closedBy, lastSequence,
                   events, errors, worker, mpc, snap, replay, recvd, written,
                   acked, ended, fails>>

\* a call of WritePut or WriteDelete, while the run has calls left
WriteCall(w, type, key, value, sent) ==
    /\ Len(calls) < MaxCalls
    /\ WriteStart(w, type, key, value, sent)

\* WritePut(key, value) up to the send
WritePut(w) ==
    /\ \E k \in Keys, v \in Values : WriteCall(w, EventPut, k, v, QueryEscape(v))
    /\ UNCHANGED ext

\* WriteDelete(key) up to the send
WriteDelete(w) ==
    /\ \E k \in Keys : WriteCall(w, EventDelete, k, <<>>, <<>>)
    /\ UNCHANGED ext

\* a send on a channel whose buffer takes any number of events
WriteSendUnbounded(w) ==
    /\ ~ Crashed
    /\ wpc[w] = "send"
    /\ events.st = "open"
    /\ events' = [events EXCEPT !.buf = Append(@, cev[w])]
    /\ calls' = [calls EXCEPT ![cev[w].id].returned = TRUE]
    /\ cev' = [cev EXCEPT ![w] = NoEvent]
    /\ wpc' = [wpc EXCEPT ![w] = "idle"]
    /\ UNCHANGED <<backend, file, table, inst, handle, closedBy, lastSequence,
                   errors, wg, worker, mpc, snap, replay, recvd, written,
                   acked, ended, fails>>
    /\ UNCHANGED ext

\* l.events <- Event{...}: a nil channel blocks for ever, a closed one
\* panics, an open one takes the event when its buffer has room
WriteSend(w) ==
    /\ ~ Crashed
    /\ wpc[w] = "send"
    /\ \/ /\ events.st = "nil"
          /\ wpc' = [wpc EXCEPT ![w] = "blocked"]
          /\ UNCHANGED <<events, calls, cev, handle, closedBy>>
       \/ /\ events.st = "closed"
          /\ Panic
          /\ UNCHANGED <<events, calls, cev, wpc>>
       \/ /\ events.st = "open"
          /\ Len(events.buf) < EventsCap
          /\ events' = [events EXCEPT !.buf = Append(@, cev[w])]
          /\ calls' = [calls EXCEPT ![cev[w].id].returned = TRUE]
          /\ cev' = [cev EXCEPT ![w] = NoEvent]
          /\ wpc' = [wpc EXCEPT ![w] = "idle"]
          /\ UNCHANGED <<handle, closedBy>>
    /\ UNCHANGED <<backend, file, table, inst, lastSequence, errors, wg, worker,
                   mpc, snap, replay, recvd, written, acked, ended, fails>>
    /\ UNCHANGED ext

(***************************************************************************)
(* The main goroutine: Wait, Close                                         *)
(***************************************************************************)
\* a Wait() that returns without l.wg.Wait()
WaitCallNoBarrier ==
    /\ ~ Crashed
    /\ MainFree
    /\ snap' = Returned
    /\ mpc' = "waited"
    /\ acked' = Len(written)
    /\ UNCHANGED <<backend, file, table, inst, handle, closedBy, lastSequence,
                   events, errors, wg, worker, wpc, cev, replay, calls, recvd,
                   written, ended, fails>>
    /\ UNCHANGED ext

\* Wait(): l.wg.Wait() returns at once when the counter is zero
WaitCall ==
    /\ ~ Crashed
    /\ MainFree
    /\ snap' = Returned
    /\ mpc' = IF wg = 0 THEN "waited" ELSE "wait"
    /\ acked' = IF wg = 0 THEN Len(written) ELSE acked
    /\ UNCHANGED <<backend, file, table, inst, handle, closedBy, lastSequence,
                   events, errors, wg, worker, wpc, cev, replay, calls, recvd,
                   written, ended, fails>>
    /\ UNCHANGED ext

\* a Close() that does not start with l.wg.Wait()
CloseCallNoWait ==
    /\ ~ Crashed
    /\ MainFree
    /\ snap' = Returned
    /\ mpc' = "close_chan"
    /\ UNCHANGED <<backend, file, table, inst, handle, closedBy, lastSequence,
                   events, errors, wg, worker, wpc, cev, replay, calls, recvd,
                   written, acked, ended, fails>>
    /\ UNCHANGED ext

\* Close(): l.wg.Wait() first
CloseCall ==
    /\ ~ Crashed
    /\ MainFree
    /\ snap' = Returned
    /\ mpc' = IF wg = 0 THEN "close_chan" ELSE "close_wait"
    /\ UNCHANGED <<backend, file, table, inst, handle, closedBy, lastSequence,
                   events, errors, wg, worker, wpc, cev, replay, calls, recvd,
                   written, acked, ended, fails>>
    /\ UNCHANGED ext

\* Close(): if l.events != nil { close(l.events) }; closing a closed channel
\* panics
CloseChan ==
    /\ ~ Crashed
    /\ mpc = "close_chan"
    /\ \/ /\ events.st = "nil"
          /\ mpc' = "close_file"
          /\ UNCHANGED <<events, handle, closedBy>>
       \/ /\ events.st = "open"
          /\ events' = [events EXCEPT !.st = "closed"]
          /\ mpc' = "close_file"
          /\ UNCHANGED <<handle, closedBy>>
       \/ /\ events.st = "closed"
          /\ Panic
          /\ UNCHANGED <<events, mpc>>
    /\ UNCHANGED <<backend, file, table, inst, lastSequence, errors, wg, worker,
                   wpc, cev, snap, replay, calls, recvd, written, acked, ended,
                   fails>>
    /\ UNCHANGED ext

\* Close(): return l.file.Close() / l.db.Close()
CloseHandle ==
    /\ ~ Crashed
    /\ mpc = "close_file"
    /\ handle' = "closed"
    /\ closedBy' = IF handle = "open" THEN "Close" ELSE closedBy
    /\ mpc' = "closed"
    /\ UNCHANGED <<backend, file, table, inst, lastSequence, events, errors, wg,
                   worker, wpc, cev, snap, replay, calls, recvd, written, acked,
                   ended, fails>>
    /\ UNCHANGED ext

(***************************************************************************)
(* The worker goroutine of Run                                             *)
(***************************************************************************)
\* l.wg.Done() bringing the counter to zero releases the goroutine that is
\* in l.wg.Wait(): in Wait() or at the start of Close()
Released(pc) ==
    IF pc = "wait" THEN "waited"
    ELSE IF pc = "close_wait" THEN "close_chan"
    ELSE pc

\* l.db.Prepare(...) of the SQLite worker: on an error the worker reports it
\* and returns
WorkerPrepare ==
    /\ ~ Crashed
    /\ worker.pc = "prepare"
    /\ \/ /\ handle = "open"
          /\ worker' = [worker EXCEPT !.pc = "recv"]
          /\ UNCHANGED errors
       \/ /\ handle = "closed"
          /\ errors' = Append(errors, "failed to prepare insert statement")
          /\ worker' = [worker EXCEPT !.pc = "exit"]
    /\ UNCHANGED <<backend, file, table, inst, handle, closedBy, lastSequence,
                   events, wg, wpc, cev, mpc, snap, replay, calls, recvd,
                   written, acked, ended, fails>>
    /\ UNCHANGED ext

\* a worker that takes the newest event of the queue, not the oldest
WorkerRecvNewest ==
    /\ ~ Crashed
    /\ worker.pc = "recv"
    /\ \/ /\ events.buf # <<>>
          /\ worker' = [pc |-> "write", e |-> events.buf[Len(events.buf)]]
          /\ events' = [events EXCEPT !.buf = SubSeq(@, 1, Len(@) - 1)]
          /\ recvd' = Append(recvd, events.buf[Len(events.buf)].id)
       \/ /\ events.buf = <<>>
          /\ events.st = "closed"
          /\ worker' = [worker EXCEPT !.pc = "exit"]
          /\ UNCHANGED <<events, recvd>>
    /\ UNCHANGED <<backend, file, table, inst, handle, closedBy, lastSequence,
                   errors, wg, wpc, cev, mpc, snap, replay, calls, written,
                   acked, ended, fails>>
    /\ UNCHANGED ext

\* for e := range events: the next event, or the end of the loop once the
\* channel is closed and empty
WorkerRecv ==
    /\ ~ Crashed
    /\ worker.pc = "recv"
    /\ \/ /\ events.buf # <<>>
          /\ worker' = [pc |-> "write", e |-> Head(events.buf)]
          /\ events' = [events EXCEPT !.buf = Tail(@)]
          /\ recvd' = Append(recvd, Head(events.buf).id)
       \/ /\ events.buf = <<>>
          /\ events.st = "closed"
          /\ worker' = [worker EXCEPT !.pc = "exit"]
          /\ UNCHANGED <<events, recvd>>
    /\ UNCHANGED <<backend, file, table, inst, handle, closedBy, lastSequence,
                   errors, wg, wpc, cev, mpc, snap, replay, calls, written,
                   acked, ended, fails>>
    /\ UNCHANGED ext

\* l.lastSequence++ of the file worker, before the write
FileNextSequence(last) == last + 1

\* the row of INSERT INTO transaction_events (event_type, key, value)
InsertedRow(rows, e) ==
    [id |-> NextRowId(rows), type |-> e.EventType, key |-> e.Key,
     value |-> e.Value]

\* a write at the start of the file, as on a file opened without O_APPEND
\* after the Seek(0, 0) of ReadEvents; the row replaces the rows
WriteAtStart ==
    /\ handle = "open"
    /\ IF backend = "file"
       THEN /\ lastSequence' = FileNextSequence(lastSequence)
            /\ file' = FormatRecord(FileNextSequence(lastSequence),
                                    worker.e.EventType, worker.e.Key,
                                    worker.e.Value)
            /\ UNCHANGED table
       ELSE /\ table' = <<InsertedRow(table, worker.e)>>
            /\ lastSequence' = InsertedRow(table, worker.e).id
            /\ UNCHANGED file
    /\ written' = Append(written, worker.e.id)
    /\ calls' = [calls EXCEPT ![worker.e.id].state = "written"]
    /\ worker' = [worker EXCEPT !.pc = "done"]
    /\ UNCHANGED fails

\* the write succeeds: the record is appended to the file, or the row is
\* inserted and lastSequence becomes result.LastInsertId()
WriteSucceeds ==
    /\ handle = "open"
    /\ IF backend = "file"
       THEN /\ lastSequence' = FileNextSequence(lastSequence)
            /\ file' = file \o FormatRecord(FileNextSequence(lastSequence),
                                            worker.e.EventType, worker.e.Key,
                                            worker.e.Value)
            /\ UNCHANGED table
       ELSE /\ table' = Append(table, InsertedRow(table, worker.e))
            /\ lastSequence' = InsertedRow(table, worker.e).id
            /\ UNCHANGED file
    /\ written' = Append(written, worker.e.id)
    /\ calls' = [calls EXCEPT ![worker.e.id].state = "written"]
    /\ worker' = [worker EXCEPT !.pc = "done"]
    /\ UNCHANGED fails

\* the write fails and stores nothing: always on a closed handle, and when
\* the environment fails it (full disk, I/O error)
WriteFails ==
    /\ \/ handle = "closed" /\ UNCHANGED fails
       \/ handle = "open" /\ fails < MaxFailures /\ fails' = fails + 1
    /\ lastSequence' = IF backend = "file" THEN FileNextSequence(lastSequence)
                       ELSE lastSequence
    /\ calls' = [calls EXCEPT ![worker.e.id].state = "failed"]
    /\ worker' = [worker EXCEPT !.pc = "senderr"]
    /\ UNCHANGED <<file, table, written>>

\* the body of the loop up to the write: fmt.Fprintf / stmt.Exec
WorkerWrite ==
    /\ ~ Crashed
    /\ worker.pc = "write"
    /\ WriteSucceeds \/ WriteFails
    /\ UNCHANGED <<backend, inst, handle, closedBy, events, errors, wg, wpc,
                   cev, mpc, snap, replay, recvd, acked, ended>>
    /\ UNCHANGED ext

\* errors <- fmt.Errorf(...): blocks while the buffer of one error is full
WorkerSendErr ==
    /\ ~ Crashed
    /\ worker.pc = "senderr"
    /\ Len(errors) < ErrorsCap
    /\ errors' = Append(errors, "cannot write")
    /\ calls' = [calls EXCEPT ![worker.e.id].state = "reported"]
    /\ worker' = [worker EXCEPT !.pc = "done"]
    /\ UNCHANGED <<backend, file, table, inst, handle, closedBy, lastSequence,
                   events, wg, wpc, cev, mpc, snap, replay, recvd, written,
                   acked, ended, fails>>
    /\ UNCHANGED ext

\* l.wg.Done()
WorkerDone ==
    /\ ~ Crashed
    /\ worker.pc = "done"
    /\ wg' = wg - 1
    /\ worker' = [pc |-> "recv", e |-> NoEvent]
    /\ mpc' = IF wg = 1 THEN Released(mpc) ELSE mpc
    /\ acked' = IF wg = 1 /\ mpc = "wait" THEN Len(written) ELSE acked
    /\ UNCHANGED <<backend, file, table, inst, handle, closedBy, lastSequence,
                   events, errors, wpc, cev, snap, replay, calls, recvd,
                   written, ended, fails>>
    /\ UNCHANGED ext

(***************************************************************************)
(* The environment and the replay                                          *)
(***************************************************************************)
\* a receive from Err()
ErrRecv ==
    /\ ~ Crashed
    /\ errors # <<>>
    /\ errors' = Tail(errors)
    /\ UNCHANGED <<backend, file, table, inst, handle, closedBy, lastSequence,
                   events, wg, worker, wpc, cev, mpc, snap, replay, calls,
                   recvd, written, acked, ended, fails>>
    /\ UNCHANGED ext

\* the storage handle is closed without Close(): l.file.Close() or
\* l.db.Close() called directly, as the recovery test does
AbruptClose ==
    /\ ~ Crashed
    /\ MainFree
    /\ handle = "open"
    /\ handle' = "closed"
    /\ closedBy' = "abrupt"
    /\ UNCHANGED <<backend, file, table, inst, lastSequence, events, errors, wg,
                   worker, wpc, cev, mpc, snap, replay, calls, recvd, written,
                   acked, ended, fails>>
    /\ UNCHANGED ext

\* ReadEvents() of either backend on the current storage
ReadResult ==
    IF backend = "file"
    THEN FileReadEvents(file, handle = "open", lastSequence)
    ELSE SQLiteReadEvents(table, handle = "open", lastSequence)

\* what a ReadEvents call that delivered r leaves behind
Delivered(r) ==
    /\ replay' = [st |-> "done", events |-> r.events, err |-> r.err]
    /\ lastSequence' = r.last

\* ReadEvents() with a consumer that receives until both channels are
\* closed, while no write is pending
ReadEvents ==
    /\ ~ Crashed
    /\ MainFree
    /\ wg = 0
    /\ Delivered(ReadResult)
    /\ UNCHANGED <<backend, file, table, inst, handle, closedBy, events, errors,
                   wg, worker, wpc, cev, mpc, snap, calls, recvd, written,
                   acked, ended, fails>>
    /\ UNCHANGED ext

(***************************************************************************)
(* One caller using the logger, instance after instance, the way the       *)
(* server and the tests do: the caller is in one call at a time, makes no  *)
(* call on a logger it has closed, and opens the next instance once the    *)
(* last one has let go of the storage.  The worker, the receiver of Err()  *)
(* and the failures of the storage run on their own.                       *)
(***************************************************************************)
\* the caller is between two calls on a logger in use
InUse ==
    /\ closedBy = "none"
    /\ mpc \in {"idle", "waited"}
    /\ \A w \in Writers : wpc[w] = "idle"

Next ==
    \/ wg = 0 /\ OpenNew
    \/ InUse /\ Run
    \/ InUse /\ WritePut("w1")
    \/ InUse /\ WriteDelete("w1")
    \/ WriteSend("w1")
    \/ InUse /\ WaitCall
    \/ InUse /\ CloseCall
    \/ CloseChan
    \/ CloseHandle
    \/ WorkerPrepare
    \/ WorkerRecv
    \/ WorkerWrite
    \/ WorkerSendErr
    \/ WorkerDone
    \/ ErrRecv
    \/ InUse /\ AbruptClose
    \/ InUse /\ events.st = "nil" /\ replay.st = "none" /\ ReadEvents

Spec == Init /\ [][Next]_vars

(***************************************************************************)
(* Concurrent callers of one running logger: every writer calls WritePut   *)
(* and WriteDelete on its own, while the main goroutine calls Wait and     *)
(* Close at any time.                                                      *)
(***************************************************************************)
NextConcurrent ==
    \/ Run
    \/ \E w \in Writers : WritePut(w)
    \/ \E w \in Writers : WriteDelete(w)
    \/ \E w \in Writers : WriteSend(w)
    \/ WaitCall
    \/ CloseCall
    \/ CloseChan
    \/ CloseHandle
    \/ WorkerPrepare
    \/ WorkerRecv
    \/ WorkerWrite
    \/ WorkerSendErr
    \/ WorkerDone
    \/ ErrRecv

SpecConcurrent == Init /\ [][NextConcurrent]_vars

(***************************************************************************)
(* Replay of a log file that no logger wrote: a fresh file logger on a     *)
(* damaged or crafted file, whose ReadEvents is called, and called again.  *)
(***************************************************************************)
InitReplay ==
    /\ InitExt
    /\ backend = "file"
    /\ file \in CraftedFiles
    /\ table = <<>>
    /\ inst = 1
    /\ handle = "open"
    /\ closedBy = "none"
    /\ lastSequence = 0
    /\ events = [st |-> "nil", buf |-> <<>>]
    /\ errors = <<>>
    /\ wg = 0
    /\ worker = [pc |-> "none", e |-> NoEvent]
    /\ wpc = [w \in Writers |-> "idle"]
    /\ cev = [w \in Writers |-> NoEvent]
    /\ mpc = "idle"
    /\ snap = {}
    /\ replay = NoReplay
    /\ calls = <<>>
    /\ recvd = <<>>
    /\ written = <<>>
    /\ acked = 0
    /\ ended = <<>>
    /\ fails = 0

NextReplay == ReadEvents

SpecReplay == InitReplay /\ [][NextReplay]_vars

(***************************************************************************)
(* What the storage holds, and what a call asked for                       *)
(***************************************************************************)
\* the fields of a line of the log file, split at each "\t"
RECURSIVE SplitTab(_, _)
SplitTab(s, cur) ==
    IF s = <<>> THEN <<cur>>
    ELSE IF Head(s) = TAB THEN <<cur>> \o SplitTab(Tail(s), <<>>)
    ELSE SplitTab(Tail(s), Append(cur, Head(s)))

\* the record of a line the file worker wrote
FileRecord(f) ==
    [Sequence |-> ParseUint(f[1], 0), EventType |-> ParseUint(f[2], 0),
     Key |-> f[3], Value |-> f[4]]

TableRecord(row) ==
    [Sequence |-> row.id, EventType |-> row.type, Key |-> row.key,
     Value |-> row.value]

FileRecords(lines) ==
    [i \in 1..Len(lines) |-> FileRecord(SplitTab(lines[i], <<>>))]

\* the records in storage, in storage order, values as stored (escaped)
Stored ==
    IF backend = "file" THEN FileRecords(ScanLines(file))
    ELSE [i \in 1..Len(table) |-> TableRecord(table[i])]

\* the record r is the record of the call c
RecordOfCall(r, c) ==
    /\ r.EventType = c.EventType
    /\ r.Key = c.Key
    /\ r.Value = (IF c.EventType = EventPut THEN QueryEscape(c.Value) ELSE <<>>)

\* the replayed event e is the event the call c submitted; a delete carries
\* no value
EventOfCall(e, c) ==
    /\ e.EventType = c.EventType
    /\ e.Key = c.Key
    /\ c.EventType = EventPut => e.Value = c.Value

\* the calls of `ids` whose state is one of `states`
InState(ids, states) == \A i \in ids : calls[i].state \in states

\* the worker's own steps
WorkerStep ==
    WorkerPrepare \/ WorkerRecv \/ WorkerWrite \/ WorkerSendErr \/ WorkerDone

(***************************************************************************)
(* Properties                                                              *)
(***************************************************************************)
\* C1: round trip.  When every call was made on the first logger (empty
\* storage), none of its writes failed, the logger was closed by Close()
\* and ReadEvents ran on the next instance, the replay delivers no error and
\* exactly one event per call, in call order, each with the kind, the key
\* and (for a put) the value of its call.
RoundTrip ==
    (/\ inst = 2
     /\ ended = <<"Close">>
     /\ replay.st = "done"
     /\ \A i \in 1..Len(calls) : calls[i].inst = 1 /\ calls[i].state = "written")
    => /\ replay.err = "nil"
       /\ Len(replay.events) = Len(calls)
       /\ \A i \in 1..Len(calls) : EventOfCall(replay.events[i], calls[i])

\* C2 as stated: when Wait() has returned, every call that had returned
\* before Wait() was invoked is in storage.
WaitBarrier ==
    mpc = "waited" => InState(snap, {"written"})

\* C2: when Wait() has returned, every call that had returned before Wait()
\* was invoked is in storage, or its write failed and the failure was sent
\* on the error channel; none is still queued or being written.
WaitBarrierUnlessFailed ==
    mpc = "waited" => InState(snap, {"written", "reported"})

\* a Wait() has returned that covered a call in storage and a call whose
\* write failed
WaitBarrierWitness ==
    /\ mpc = "waited"
    /\ \E i \in snap : calls[i].state = "written"
    /\ \E i \in snap : calls[i].state = "reported"

\* C3: crash durability.  After the handle of the last instance was closed
\* without Close(), the replay on the next instance, before any call is
\* made on it, delivers the events that were in storage when Wait() last
\* returned, first and in the same order, each with the kind, the key and
\* (for a put) the value of its call.
CrashDurability ==
    (/\ inst > 1
     /\ ended[inst - 1] = "abrupt"
     /\ replay.st = "done"
     /\ \A i \in 1..Len(calls) : calls[i].inst < inst)
    => \A i \in 1..acked :
          /\ i <= Len(replay.events)
          /\ EventOfCall(replay.events[i], calls[written[i]])

\* the calls received by the worker are each call once, and two calls of
\* one caller were received in the order they were made
DeliveredOnceInCallOrder ==
    /\ Len(recvd) = Len(calls)
    /\ \A i, j \in 1..Len(recvd) :
          /\ i # j => recvd[i] # recvd[j]
          /\ (i < j /\ calls[recvd[i]].caller = calls[recvd[j]].caller)
                => recvd[i] < recvd[j]

\* storage holds the records of the calls whose write did not fail, one
\* each, in the order the worker received them
StoredInDeliveryOrder ==
    /\ written = SelectSeq(recvd, LAMBDA i : calls[i].state = "written")
    /\ Len(Stored) = Len(written)
    /\ \A i \in 1..Len(written) : RecordOfCall(Stored[i], calls[written[i]])

\* every call made has returned, and Wait() was invoked after that and has
\* returned
AllReturnedAndWaited ==
    /\ mpc = "waited"
    /\ calls # <<>>
    /\ snap = 1..Len(calls)

ReplayMonotonicGapless ==
    replay.st = "done"
    => /\ \A i \in 1..(Len(replay.events) - 1) :
             replay.events[i + 1].Sequence > replay.events[i].Sequence
       /\ backend = "file"
             => \A i \in 1..Len(replay.events) : replay.events[i].Sequence = i

\* C6: in the file backend the sequence numbers of the records in the file
\* go up by one from each record to the next: none repeated, decreased or
\* skipped.
SequencesNeverReused ==
    backend = "file"
    => \A i \in 1..(Len(Stored) - 1) :
          Stored[i + 1].Sequence = Stored[i].Sequence + 1

\* C7: the worker is never wedged by a write failure.  While the process
\* runs and the worker holds an event, written, failed or not yet tried,
\* the worker has a step it can take, whether or not anybody receives from
\* Err().
WorkerNeverWedged ==
    (~ Crashed /\ worker.pc \in {"write", "senderr", "done"})
    => ENABLED WorkerStep

\* Close() is past its l.wg.Wait(): it closes the channel, then releases
\* the storage handle, then has returned
CloseDrained == mpc \in {"close_chan", "close_file", "closed"}

\* C8 as stated: once Close() is past its wait, and so when it releases the
\* handle and when it returns, every call that had returned before Close()
\* was invoked is in storage.
CloseDrains ==
    CloseDrained => InState(snap, {"written"})

\* C8: once Close() is past its wait, and so when it releases the handle and
\* when it returns, every call that had returned before Close() was invoked
\* is in storage, or its write failed and the failure was sent on the error
\* channel.
CloseDrainsUnlessFailed ==
    CloseDrained => InState(snap, {"written", "reported"})

\* Close() has returned after calls that are in storage
CloseDrainsWitness ==
    /\ mpc = "closed"
    /\ closedBy = "Close"
    /\ \E i \in snap : calls[i].state = "written"

\* the number a line starts with, and whether it starts with one
HasSeq(line) == DigitsLen(line) > 0

SeqOf(line) == ParseUint(Take(line, DigitsLen(line)), 0)

\* the line j of `lines` is refused by a replay that had `last` as its
\* lastSequence and delivered r: an error, and no event for it or after it
Refused(r, j) == r.err # "nil" /\ Len(r.events) = j - 1

\* the sequence the replay r compares the line j with
Previous(r, j, last) == IF j = 1 THEN last ELSE r.events[j - 1].Sequence

OutOfOrderRefused(lines, last, r) ==
    \A j \in 1..Len(lines) :
        (/\ Len(r.events) >= j - 1
         /\ HasSeq(lines[j])
         /\ SeqOf(lines[j]) <= Previous(r, j, last))
        => Refused(r, j)

\* C9: out-of-order detection.  A ReadEvents call on a file refuses the
\* first record whose sequence number is less than or equal to the sequence
\* of the event emitted before it (to the logger's lastSequence, for the
\* first record): it delivers an error, and no event for that record or for
\* a later one.
OutOfOrderDetected ==
    [][replay' # replay => OutOfOrderRefused(ScanLines(file), lastSequence,
                                             replay')]_vars

\* a replay has emitted an event and then refused a record
OutOfOrderWitness ==
    /\ replay.st = "done"
    /\ replay.err = "transaction numbers out of sequence"
    /\ replay.events # <<>>

\* a line of four fields whose value unescapes
WellFormed(line) ==
    /\ Len(SplitTab(line, <<>>)) = 4
    /\ QueryUnescape(SplitTab(line, <<>>)[4]).ok

\* C10: malformed-record detection.  Every line for which a file replay
\* emitted an event has exactly four fields and a value that unescapes, and
\* a replay that stopped before the end of the file delivered an error.
MalformedDetected ==
    replay.st = "done"
    => /\ \A j \in 1..Len(replay.events) : WellFormed(ScanLines(file)[j])
       /\ Len(replay.events) < Len(ScanLines(file)) => replay.err # "nil"


(***************************************************************************)
(* Streaming replay: the goroutine of one ReadEvents call and its two      *)
(* channels, step by step                                                  *)
(***************************************************************************)
\* outError := make(chan error, 1) of both ReadEvents
ReplayErrorsCap == 1

\* CREATE TABLE transaction_events: rows that no logger inserted, with the
\* sequence_id the table assigns and the fields of the crafted lines
CraftedRow(i, t, k, v) == [id |-> i, type |-> t, key |-> k, value |-> v]

CraftedTables ==
    UNION {{[i \in 1..n |-> CraftedRow(i, ts[i], <<107>>, vs[i])] :
               ts \in [1..n -> {EventDelete, EventPut}],
               vs \in [1..n -> ValueFields]} : n \in 0..MaxLines}

\* a fresh logger on storage that exists already
FreshLogger ==
    /\ InitExt
    /\ inst = 1
    /\ handle = "open"
    /\ closedBy = "none"
    /\ events = [st |-> "nil", buf |-> <<>>]
    /\ errors = <<>>
    /\ wg = 0
    /\ worker = [pc |-> "none", e |-> NoEvent]
    /\ wpc = [w \in Writers |-> "idle"]
    /\ cev = [w \in Writers |-> NoEvent]
    /\ mpc = "idle"
    /\ snap = {}
    /\ replay = NoReplay
    /\ calls = <<>>
    /\ recvd = <<>>
    /\ written = <<>>
    /\ acked = 0
    /\ ended = <<>>
    /\ fails = 0

\* ReadEvents() up to the go statement: the channels are made and the
\* goroutine starts on storage b, comparing with lastSequence `last`
ReaderStarted(b, own, last) ==
    /\ rd' = [NoReader EXCEPT !.pc = "open", !.src = b,
                              !.lines = IF b = "file" THEN ScanLines(file)
                                        ELSE table,
                              !.last = last, !.own = own]
    /\ out' = NoChannels
    /\ emitted' = <<>>

\* ReadEvents() called once on a logger
StartReader(b, own, last) ==
    /\ rd.pc = "none"
    /\ ReaderStarted(b, own, last)

\* the storage the goroutine reads is open: the file logger of a migration
\* is closed only when MigrateFileToSQLite returns
ReaderOpen == IF rd.own THEN handle = "open" ELSE TRUE

\* l.file.Seek(0, 0) or l.db.Query(...): an error on closed storage
ReaderSeek ==
    /\ rd.pc = "open"
    /\ rd' = IF ReaderOpen THEN [rd EXCEPT !.pc = "scan"]
             ELSE [rd EXCEPT !.pc = "senderr",
                             !.err = IF rd.src = "file"
                                     THEN "failed to seek to start of file"
                                     ELSE "failed to query events"]
    /\ UNCHANGED <<core, store, req, out, emitted, cons, mig, disk, kv, phases, earlier>>

\* one iteration of the rows.Next() loop on `row`; uv is url.QueryUnescape
\* of its value
ScanRow(row, uv, last) ==
    IF ~ uv.ok
    THEN [err |-> "value decoding failure", e |-> ZeroEvent, last |-> last]
    ELSE [err |-> "nil",
          e |-> [Sequence |-> row.id, EventType |-> row.type, Key |-> row.key,
                 Value |-> uv.val],
          last |-> row.id]

\* one iteration of the loop of either ReadEvents
ScanItem(b, item, e, last) ==
    IF b = "file" THEN ScanLine(item, e, last)
    ELSE ScanRow(item, QueryUnescape(item.value), last)

\* what the iteration that did r leaves the goroutine at: the error to
\* send on outError, or the event to send on outEvent
Scanned(r) ==
    IF r.err # "nil"
    THEN [rd EXCEPT !.pc = "senderr", !.err = r.err, !.lines = Tail(@)]
    ELSE [rd EXCEPT !.pc = "send", !.e = r.e, !.last = r.last,
                    !.pending = r.e, !.lines = Tail(@)]

\* scanner.Scan() or rows.Next() and the loop body up to its send; at the
\* end of the input the goroutine returns
ReaderScan ==
    /\ rd.pc = "scan"
    /\ rd' = IF rd.lines = <<>> THEN [rd EXCEPT !.pc = "closeerr"]
             ELSE Scanned(ScanItem(rd.src, Head(rd.lines), rd.e, rd.last))
    /\ lastSequence' = IF rd.own THEN rd'.last ELSE lastSequence
    /\ UNCHANGED <<backend, file, table, inst, handle, closedBy, events, errors,
                   wg, worker, wpc, cev, mpc, snap, replay, calls, recvd,
                   written, acked, ended, fails>>
    /\ UNCHANGED <<store, req, out, emitted, cons, mig, disk, kv, phases, earlier>>

\* the send that puts two errors on outError
ReaderSendErrorTwice ==
    /\ rd.pc = "senderr"
    /\ Len(out.err) < ReplayErrorsCap
    /\ out' = [out EXCEPT !.err = Append(@, rd.err)]
    /\ rd' = [rd EXCEPT !.errs = @ + 1,
                        !.pc = IF rd.errs = 0 THEN "senderr" ELSE "closeerr"]
    /\ UNCHANGED <<core, store, req, emitted, cons, mig, disk, kv, phases, earlier>>

\* outError <- fmt.Errorf(...); return
ReaderSendError ==
    /\ rd.pc = "senderr"
    /\ Len(out.err) < ReplayErrorsCap
    /\ out' = [out EXCEPT !.err = Append(@, rd.err)]
    /\ rd' = [rd EXCEPT !.pc = "closeerr", !.errs = @ + 1]
    /\ UNCHANGED <<core, store, req, emitted, cons, mig, disk, kv, phases, earlier>>

\* defer close(outError): the deferred call that runs first
ReaderCloseError ==
    /\ rd.pc = "closeerr"
    /\ out' = [out EXCEPT !.errClosed = TRUE]
    /\ rd' = [rd EXCEPT !.pc = "closeevent"]
    /\ UNCHANGED <<core, store, req, emitted, cons, mig, disk, kv, phases, earlier>>

\* a goroutine that returns and leaves outEvent open
ReaderLeavesEventOpen ==
    /\ rd.pc = "closeevent"
    /\ rd' = [rd EXCEPT !.pc = "done"]
    /\ UNCHANGED <<core, store, req, out, emitted, cons, mig, disk, kv, phases, earlier>>

\* defer close(outEvent): the deferred call that runs last
ReaderCloseEvent ==
    /\ rd.pc = "closeevent"
    /\ out' = [out EXCEPT !.evClosed = TRUE]
    /\ rd' = [rd EXCEPT !.pc = "done"]
    /\ UNCHANGED <<core, store, req, emitted, cons, mig, disk, kv, phases, earlier>>

\* a receive on outEvent can proceed: the goroutine is at its send, or the
\* channel is closed
EventReady == rd.pc = "send" \/ out.evClosed

\* a receive on outError can proceed: an error is buffered, or the channel
\* is closed
ErrorReady == out.err # <<>> \/ out.errClosed

\* e, ok = <-events
EventReceived == IF rd.pc = "send" THEN [e |-> rd.pending, ok |-> TRUE]
                 ELSE [e |-> ZeroEvent, ok |-> FALSE]

\* err, ok = <-errors
ErrorReceived == IF out.err # <<>> THEN [err |-> Head(out.err), ok |-> TRUE]
                 ELSE [err |-> "nil", ok |-> FALSE]

\* the channels after a receive on outEvent: outEvent <- e completes
TakeEvent ==
    /\ EventReady
    /\ rd' = IF rd.pc = "send" THEN [rd EXCEPT !.pc = "scan"] ELSE rd
    /\ emitted' = IF rd.pc = "send" THEN Append(emitted, rd.pending)
                  ELSE emitted
    /\ out' = out

\* the channels after a receive on outError
TakeError ==
    /\ ErrorReady
    /\ out' = [out EXCEPT !.err = IF @ = <<>> THEN @ ELSE Tail(@)]
    /\ UNCHANGED <<rd, emitted>>

\* the goroutine of the call returns: the send of its error, if it sends
\* one, and its deferred calls
ReaderReturn == ReaderSendError \/ ReaderCloseError \/ ReaderCloseEvent

(***************************************************************************)
(* One ReadEvents call on a damaged or crafted log of either backend, on   *)
(* an open or an abruptly closed handle, with a consumer that receives     *)
(* from the two channels in any order.                                     *)
(***************************************************************************)
InitStream ==
    /\ FreshLogger
    /\ backend \in {"file", "sqlite"}
    /\ file \in IF backend = "file" THEN CraftedFiles ELSE {<<>>}
    /\ table \in IF backend = "sqlite" THEN CraftedTables ELSE {<<>>}
    /\ lastSequence = NewLastSequence(backend, table)

\* events, errors := logger.ReadEvents()
ReadEventsCall ==
    /\ ~ Crashed
    /\ MainFree
    /\ StartReader(backend, TRUE, lastSequence)
    /\ UNCHANGED <<core, store, req, cons, mig, disk, kv, phases, earlier>>

\* <-events by the consumer
RecvEvent ==
    /\ TakeEvent
    /\ UNCHANGED <<core, store, req, cons, mig, disk, kv, phases, earlier>>

\* <-errors by the consumer
RecvError ==
    /\ TakeError
    /\ UNCHANGED <<core, store, req, cons, mig, disk, kv, phases, earlier>>

NextStream ==
    \/ rd.pc = "none" /\ AbruptClose
    \/ ReadEventsCall
    \/ ReaderSeek
    \/ ReaderScan
    \/ ReaderSendError
    \/ ReaderCloseError
    \/ ReaderCloseEvent
    \/ rd.pc = "send" /\ RecvEvent
    \/ out.err # <<>> /\ RecvError

\* a goroutine that is returning is scheduled until it has returned
SpecStream == InitStream /\ [][NextStream]_vars /\ WF_vars(ReaderReturn)

\* a step of a call that has sent an error: the events received so far stay
\* as they are and no event is being sent, no other error is sent, and the
\* goroutine is on its way to closing the channels
TerminalStep ==
    /\ rd.errs > 0 =>
          /\ emitted' = emitted
          /\ rd'.errs = 1
          /\ rd'.pc \in {"closeerr", "closeevent", "done"}
    /\ rd.pc # "none" => SubSeq(emitted', 1, Len(emitted)) = emitted
    /\ rd'.pc = "done" => out'.errClosed /\ out'.evClosed

\* C11: once a ReadEvents call has sent an error it sends no further event
\* and no second error, the events received before the error stay received,
\* and the call goes on to close outError and outEvent.
ReplayFailureTerminal ==
    /\ [][TerminalStep]_vars
    /\ (rd.errs > 0) ~> (out.errClosed /\ out.evClosed)

\* a call that sent an event, then an error, and has closed both channels
ReplayFailureTerminalWitness ==
    /\ rd.errs = 1
    /\ emitted # <<>>
    /\ rd.pc = "done"
    /\ out.errClosed /\ out.evClosed

(***************************************************************************)
(* Start-up of the server: initializeTransactionLog replays the log file   *)
(* into the store, starts the logger and returns to main.                  *)
(***************************************************************************)
\* Put(key, value) of core.go: store.m[key] = value
StorePut(m, key, value) ==
    [k \in DOMAIN m \cup {key} |-> IF k = key THEN value ELSE m[k]]

\* Delete(key) of core.go: delete(store.m, key)
StoreDelete(m, key) == [k \in DOMAIN m \ {key} |-> m[k]]

\* the switch on e.EventType of the replay loop
ApplyEvent(m, e) ==
    IF e.EventType = EventDelete THEN StoreDelete(m, e.Key)
    ELSE IF e.EventType = EventPut THEN StorePut(m, e.Key, e.Value)
    ELSE m

\* the server starts on a log file left by earlier runs, damaged or not
InitStartup ==
    /\ FreshLogger
    /\ backend = "file"
    /\ file \in CraftedFiles
    /\ table = <<>>
    /\ lastSequence = 0

\* internal.NewTransactionLogger(...), transact.ReadEvents() and
\* count, ok, e := 0, true, internal.Event{}
StartupReadEvents ==
    /\ cons.pc = "none"
    /\ StartReader(backend, TRUE, lastSequence)
    /\ cons' = [pc |-> "select", err |-> "nil", ok |-> TRUE, count |-> 0]
    /\ UNCHANGED <<core, store, req, mig, disk, kv, phases, earlier>>

\* for ok && err == nil: the select statement again, or on to transact.Run()
LoopOrRun(err, ok) == IF ok /\ err = "nil" THEN "select" ELSE "run"

\* case err, ok = <-errors
StartupRecvError ==
    /\ cons.pc = "select"
    /\ TakeError
    /\ cons' = [cons EXCEPT !.err = ErrorReceived.err, !.ok = ErrorReceived.ok,
                            !.pc = LoopOrRun(ErrorReceived.err,
                                             ErrorReceived.ok)]
    /\ UNCHANGED <<core, store, req, mig, disk, kv, phases, earlier>>

\* case e, ok = <-events: internal.Delete and internal.Put return nil
StartupRecvEvent ==
    /\ cons.pc = "select"
    /\ TakeEvent
    /\ store' = ApplyEvent(store, EventReceived.e)
    /\ cons' = [cons EXCEPT !.ok = EventReceived.ok, !.count = @ + 1,
                            !.pc = LoopOrRun("nil", EventReceived.ok)]
    /\ UNCHANGED <<core, req, mig, disk, kv, phases, earlier>>

\* return err, and in main: if err != nil { panic(err) }
StartupReturn ==
    /\ cons.pc = "run"
    /\ events.st = "open"
    /\ cons' = [cons EXCEPT !.pc = IF cons.err # "nil" THEN "aborted"
                                   ELSE "serving"]
    /\ UNCHANGED <<core, store, req, rd, out, emitted, mig, disk, kv, phases, earlier>>

NextStartup ==
    \/ StartupReadEvents
    \/ ReaderSeek
    \/ ReaderScan
    \/ ReaderSendError
    \/ ReaderCloseError
    \/ ReaderCloseEvent
    \/ StartupRecvError
    \/ StartupRecvEvent
    \/ cons.pc = "run" /\ events.st = "nil" /\ Run
    \/ StartupReturn

SpecStartup == InitStartup /\ [][NextStartup]_vars

\* C12: a replay error is fatal to start-up.  When initializeTransactionLog
\* has returned and the replay it consumed had sent an error, it returned
\* that error and main has aborted the process.
ReplayErrorFatal ==
    (cons.pc \in {"serving", "aborted"} /\ rd.errs > 0) => cons.pc = "aborted"

(***************************************************************************)
(* The server at work: HTTP handlers that change the store and then log    *)
(* the change, each in its own goroutine, on a log that started empty.     *)
(***************************************************************************)
InitServer ==
    /\ FreshLogger
    /\ backend = "file"
    /\ file = <<>>
    /\ table = <<>>
    /\ lastSequence = 0

\* the handlers between their change of the store and their call of the
\* logger
Handling == {w \in Writers : req[w] # NoEvent}

\* a request is served once transact.Run() was called, by a goroutine that
\* serves no other request
Serving(w) ==
    /\ events.st = "open"
    /\ req[w] = NoEvent
    /\ wpc[w] = "idle"
    /\ Len(calls) + Cardinality(Handling) < MaxCalls

\* keyValuePutHandler up to internal.Put(key, string(value))
KeyValuePutHandler(w) ==
    /\ Serving(w)
    /\ \E k \in Keys, v \in Values :
          /\ store' = StorePut(store, k, v)
          /\ req' = [req EXCEPT ![w] = [id |-> 0, EventType |-> EventPut,
                                        Key |-> k, Value |-> v]]
    /\ UNCHANGED <<core, rd, out, emitted, cons, mig, disk, kv, phases, earlier>>

\* keyValueDeleteHandler up to internal.Delete(key)
KeyValueDeleteHandler(w) ==
    /\ Serving(w)
    /\ \E k \in Keys :
          /\ store' = StoreDelete(store, k)
          /\ req' = [req EXCEPT ![w] = [id |-> 0, EventType |-> EventDelete,
                                        Key |-> k, Value |-> <<>>]]
    /\ UNCHANGED <<core, rd, out, emitted, cons, mig, disk, kv, phases, earlier>>

\* transact.WritePut(key, string(value)) or transact.WriteDelete(key) of the
\* handler, up to the send
HandlerWrite(w) ==
    /\ req[w] # NoEvent
    /\ WriteCall(w, req[w].EventType, req[w].Key, req[w].Value,
                 IF req[w].EventType = EventPut THEN QueryEscape(req[w].Value)
                 ELSE <<>>)
    /\ req' = [req EXCEPT ![w] = NoEvent]
    /\ UNCHANGED <<store, rd, out, emitted, cons, mig, disk, kv, phases, earlier>>

\* the worker's write when storage does not fail
WorkerWriteStored == WorkerWrite /\ fails' = fails

NextServer ==
    \/ Run
    \/ \E w \in Writers : KeyValuePutHandler(w)
    \/ \E w \in Writers : KeyValueDeleteHandler(w)
    \/ \E w \in Writers : HandlerWrite(w)
    \/ \E w \in Writers : WriteSend(w)
    \/ WorkerRecv
    \/ WorkerWriteStored
    \/ WorkerDone
    \/ events.st = "open" /\ WaitCall

SpecServer == InitServer /\ [][NextServer]_vars

\* the map that replaying the stored records `recs` into m yields
RECURSIVE ApplyRecords(_, _)
ApplyRecords(recs, m) ==
    IF recs = <<>> THEN m
    ELSE ApplyRecords(Tail(recs),
                      ApplyEvent(m, [Head(recs) EXCEPT
                                        !.Value = QueryUnescape(@).val]))

\* every handler has returned, and Wait() was called after that and has
\* returned
Quiescent ==
    /\ Handling = {}
    /\ \A w \in Writers : wpc[w] = "idle"
    /\ AllReturnedAndWaited

\* C13: the log is the source of truth.  At a quiescent point the stored
\* records, applied in sequence order to an empty map, yield the store.
LogIsSourceOfTruth == Quiescent => ApplyRecords(Stored, EmptyStore) = store

(***************************************************************************)
(* Replay of what a logger wrote: a logger of each backend was given the   *)
(* same WritePut/WriteDelete calls, with keys of any bytes, was waited for *)
(* and closed; a fresh logger of either backend then replays its storage.  *)
(***************************************************************************)
\* calls made on the logger that wrote the storage
MaxRecords == 2

\* "k", "", "k k", "k\tk", "k\nk"
AnyKeys == {<<107>>, <<>>, <<107, SP, 107>>, <<107, TAB, 107>>,
            <<107, NL, 107>>}

\* a WritePut(key, value) or WriteDelete(key) call that has returned and
\* whose event was written
WrittenCall(type, key, value) ==
    [caller |-> "w1", inst |-> 1, EventType |-> type, Key |-> key,
     Value |-> value, returned |-> TRUE, state |-> "written"]

WrittenCalls ==
    {WrittenCall(EventPut, k, v) : k \in AnyKeys, v \in Values}
        \cup {WrittenCall(EventDelete, k, <<>>) : k \in AnyKeys}

\* the Event that WritePut or WriteDelete sent for the call c
SentEvent(c) ==
    [id |-> 0, EventType |-> c.EventType, Key |-> c.Key,
     Value |-> IF c.EventType = EventPut THEN QueryEscape(c.Value) ELSE <<>>]

\* the file after the worker of a file logger wrote the events of cs, the
\* last sequence number used being `last`
RECURSIVE WrittenFile(_, _)
WrittenFile(cs, last) ==
    IF cs = <<>> THEN <<>>
    ELSE FormatRecord(FileNextSequence(last), SentEvent(Head(cs)).EventType,
                      SentEvent(Head(cs)).Key, SentEvent(Head(cs)).Value)
             \o WrittenFile(Tail(cs), FileNextSequence(last))

\* the table after the worker of an SQLite logger inserted the events of cs
\* after `rows`
RECURSIVE WrittenTable(_, _)
WrittenTable(cs, rows) ==
    IF cs = <<>> THEN rows
    ELSE WrittenTable(Tail(cs),
                      Append(rows, InsertedRow(rows, SentEvent(Head(cs)))))

InitRecords ==
    /\ InitExt
    /\ backend \in {"file", "sqlite"}
    /\ calls \in UNION {[1..n -> WrittenCalls] : n \in 0..MaxRecords}
    /\ file = WrittenFile(calls, 0)
    /\ table = WrittenTable(calls, <<>>)
    /\ inst = 2
    /\ handle = "open"
    /\ closedBy = "none"
    /\ lastSequence = NewLastSequence(backend, table)
    /\ events = [st |-> "nil", buf |-> <<>>]
    /\ errors = <<>>
    /\ wg = 0
    /\ worker = [pc |-> "none", e |-> NoEvent]
    /\ wpc = [w \in Writers |-> "idle"]
    /\ cev = [w \in Writers |-> NoEvent]
    /\ mpc = "idle"
    /\ snap = {}
    /\ replay = NoReplay
    /\ recvd = [i \in 1..Len(calls) |-> i]
    /\ written = [i \in 1..Len(calls) |-> i]
    /\ acked = Len(calls)
    /\ ended = <<"Close">>
    /\ fails = 0

NextRecords == replay.st = "none" /\ ReadEvents

SpecRecords == InitRecords /\ [][NextRecords]_vars

\* C14: keys survive the log.  A replay of what a logger wrote delivers no
\* error and one event per call, in call order, each with the key and the
\* value of its call, whatever bytes the keys are made of.
KeysSurvive ==
    replay.st = "done"
    => /\ replay.err = "nil"
       /\ Len(replay.events) = Len(calls)
       /\ \A i \in 1..Len(calls) : EventOfCall(replay.events[i], calls[i])

\* the (kind, key, value) triples of the events evs
Triples(evs) ==
    [i \in 1..Len(evs) |-> <<evs[i].EventType, evs[i].Key, evs[i].Value>>]

\* the replay of the other backend's storage by a fresh logger of that
\* backend
OtherReplay ==
    IF backend = "file"
    THEN SQLiteReadEvents(table, TRUE, NewLastSequence("sqlite", table))
    ELSE FileReadEvents(file, TRUE, NewLastSequence("file", table))

\* C19: the two backends are interchangeable.  After the same calls, Wait
\* and Close, the replay of one backend on a fresh instance emits the same
\* (kind, key, value) triples as the replay of the other, and delivers an
\* error exactly when the other does.
BackendsInterchangeable ==
    replay.st = "done"
    => /\ Triples(replay.events) = Triples(OtherReplay.events)
       /\ (replay.err = "nil") <=> (OtherReplay.err = "nil")

\* C20: an empty value field replays as an empty value.  Every event that a
\* replay emitted for a stored record with no value, a Delete or a Put of
\* the empty string, carries the empty string, in both backends and
\* whatever records precede it.
EmptyValueReplaysEmpty ==
    replay.st = "done"
    => \A i \in 1..Len(replay.events) :
          Stored[i].Value = <<>> => replay.events[i].Value = <<>>

(***************************************************************************)
(* Migration: MigrateFileToSQLite on a log file, damaged or not, and a     *)
(* table that is empty or not; the logger it returned is closed and        *)
(* MigrateFileToSQLite is called again on the same file path and table.    *)
(***************************************************************************)
\* the table before the migration: empty, or holding the row of one
\* WritePut("k", "a")
ExistingTables ==
    {<<>>, WrittenTable(<<WrittenCall(EventPut, <<107>>, <<97>>)>>, <<>>)}

\* the lines of the file to migrate: "1\t2\tk\ta", "2\t2\tk\t" and
\* "2\t1\tk\t", which a logger writes for a Put of "a", a Put of "" and
\* a Delete, and the damaged line "x\t2\tk\ta"
MigrateLines ==
    {JoinTab(<<<<49>>, <<50>>, <<107>>, <<97>>>>),
     JoinTab(<<<<50>>, <<50>>, <<107>>, <<>>>>),
     JoinTab(<<<<50>>, <<49>>, <<107>>, <<>>>>),
     JoinTab(<<<<120>>, <<50>>, <<107>>, <<97>>>>)}

MigrateFiles ==
    {FileOf(ls) : ls \in UNION {[1..n -> MigrateLines] : n \in 0..MaxLines}}

InitMigrate ==
    /\ FreshLogger
    /\ backend = "sqlite"
    /\ file \in MigrateFiles
    /\ table \in ExistingTables
    /\ lastSequence = NewLastSequence(backend, table)

\* GetEventCount(): SELECT COUNT(*) FROM transaction_events
GetEventCount(rows) == Len(rows)

\* a migration that does not look at the count of the table
StattedNoCount ==
    IF ~ disk.exists THEN [pc |-> "done", result |-> "created"]
    ELSE [pc |-> "run", result |-> "none"]

\* os.Stat(logFile) on a missing file: NewSQLiteTransactionLogger only
\* (result "created"); count > 0: the logger without a migration (result
\* "skipped"); otherwise on to sqliteLogger.Run()
Statted ==
    IF ~ disk.exists THEN [pc |-> "done", result |-> "created"]
    ELSE IF GetEventCount(table) > 0 THEN [pc |-> "done", result |-> "skipped"]
    ELSE [pc |-> "run", result |-> "none"]

\* MigrateFileToSQLite up to `if count > 0`, on a logger instance no
\* migration ran on yet
MigrateStat ==
    /\ ~ Crashed
    /\ mig.pc \in {"none", "done"}
    /\ mig.result # "error"
    /\ mig.inst < inst
    /\ handle = "open"
    /\ events.st = "nil"
    /\ mpc = "idle"
    /\ mig' = [pc |-> Statted.pc, result |-> Statted.result, inst |-> inst,
               file0 |-> file, table0 |-> table, prev |-> mig.result]
    /\ UNCHANGED <<core, store, req, rd, out, emitted, cons, disk, kv, phases, earlier>>

\* events, errors := fileLogger.ReadEvents(): the file logger is fresh, its
\* lastSequence is 0
MigrateReadEvents ==
    /\ mig.pc = "run"
    /\ events.st = "open"
    /\ rd.pc \in {"none", "done"}
    /\ ReaderStarted("file", FALSE, 0)
    /\ mig' = [mig EXCEPT !.pc = "select"]
    /\ UNCHANGED <<core, store, req, cons, disk, kv, phases, earlier>>

\* the switch on event.EventType: WritePut or WriteDelete on the SQLite
\* logger, up to the send
MigrateWrite(e) ==
    IF e.EventType = EventPut
    THEN WriteCall("w1", EventPut, e.Key, e.Value, QueryEscape(e.Value))
    ELSE IF e.EventType = EventDelete
    THEN WriteCall("w1", EventDelete, e.Key, <<>>, <<>>)
    ELSE UNCHANGED core

\* case event, ok := <-events
MigrateRecvEvent ==
    /\ mig.pc = "select"
    /\ wpc["w1"] = "idle"
    /\ TakeEvent
    /\ IF EventReceived.ok
       THEN MigrateWrite(EventReceived.e) /\ UNCHANGED mig
       ELSE mig' = [mig EXCEPT !.pc = "complete"] /\ UNCHANGED core
    /\ UNCHANGED <<store, req, cons, disk, kv, phases, earlier>>

\* case err, ok := <-errors
MigrateRecvError ==
    /\ mig.pc = "select"
    /\ wpc["w1"] = "idle"
    /\ TakeError
    /\ mig' = IF ErrorReceived.ok /\ ErrorReceived.err # "nil"
              THEN [mig EXCEPT !.pc = "failing"] ELSE mig
    /\ UNCHANGED <<core, store, req, cons, disk, kv, phases, earlier>>

\* an archive step that removes the file
MigrateArchiveRemove ==
    /\ mig.pc = "complete"
    /\ mpc = "waited"
    /\ disk' = [exists |-> FALSE, archived |-> FALSE]
    /\ mig' = [mig EXCEPT !.pc = "done", !.result = "migrated"]
    /\ UNCHANGED <<core, store, req, rd, out, emitted, cons, kv, phases, earlier>>

\* migrationComplete, after sqliteLogger.Wait(): os.Rename(logFile,
\* archiveFile), whose failure is only printed, and return sqliteLogger, nil
MigrateArchive ==
    /\ mig.pc = "complete"
    /\ mpc = "waited"
    /\ \E renamed \in BOOLEAN :
          disk' = IF renamed THEN [exists |-> FALSE, archived |-> TRUE]
                  ELSE disk
    /\ mig' = [mig EXCEPT !.pc = "done", !.result = "migrated"]
    /\ UNCHANGED <<core, store, req, rd, out, emitted, cons, kv, phases, earlier>>

\* return nil, fmt.Errorf("migration failed while reading file: %w", err),
\* after the deferred sqliteLogger.Wait()
MigrateFail ==
    /\ mig.pc = "failing"
    /\ mpc = "waited"
    /\ mig' = [mig EXCEPT !.pc = "done", !.result = "error"]
    /\ UNCHANGED <<core, store, req, rd, out, emitted, cons, disk, kv, phases, earlier>>

\* the caller is done with the logger that MigrateFileToSQLite returned
Migrated == mig.pc = "done" /\ mig.result # "error" /\ mig.inst = inst

NextMigrate ==
    \/ MigrateStat
    \/ mig.pc = "run" /\ Run
    \/ MigrateReadEvents
    \/ ReaderSeek
    \/ ReaderScan
    \/ ReaderSendError
    \/ ReaderCloseError
    \/ ReaderCloseEvent
    \/ MigrateRecvEvent
    \/ MigrateRecvError
    \/ WriteSend("w1")
    \/ WorkerPrepare
    \/ WorkerRecv
    \/ WorkerWrite
    \/ WorkerSendErr
    \/ WorkerDone
    \/ mig.pc \in {"complete", "failing"} /\ mpc = "idle" /\ WaitCall
    \/ MigrateArchive
    \/ MigrateFail
    \/ Migrated /\ InUse /\ CloseCall
    \/ CloseChan
    \/ CloseHandle
    \/ Migrated /\ OpenNew

SpecMigrate == InitMigrate /\ [][NextMigrate]_vars

\* a field made of decimal digits
IsNumber(f) == f # <<>> /\ \A i \in 1..Len(f) : IsDigit(f[i])

\* a line that a file logger can have written: four fields, a sequence
\* number, the kind of a Put or of a Delete, a value that unescapes, and no
\* value on a Delete
LoggerLine(line) ==
    /\ WellFormed(line)
    /\ IsNumber(SplitTab(line, <<>>)[1])
    /\ ParseUint(SplitTab(line, <<>>)[2], 0) \in {EventDelete, EventPut}
    /\ Len(SplitTab(line, <<>>)[2]) = 1
    /\ ParseUint(SplitTab(line, <<>>)[2], 0) = EventDelete
           => SplitTab(line, <<>>)[4] = <<>>

\* a file of well-formed events: lines a logger can have written, with
\* increasing sequence numbers
WellFormedFile(data) ==
    /\ \A i \in 1..Len(ScanLines(data)) : LoggerLine(ScanLines(data)[i])
    /\ \A i \in 1..Len(ScanLines(data)) :
          FileRecords(ScanLines(data))[i].Sequence
              > (IF i = 1 THEN 0
                 ELSE FileRecords(ScanLines(data))[i - 1].Sequence)

\* the first call of MigrateFileToSQLite has returned a logger after a
\* migration in which no write to the table failed
FirstMigrationDone ==
    /\ mig.pc = "done"
    /\ mig.inst = 1
    /\ mig.result = "migrated"
    /\ fails = 0

\* C15: migration imports everything in order.  When the file holds n
\* well-formed events and the table is empty, the logger returned by the
\* migration has n rows, which carry the sequences 1..n and the kind, key
\* and value of the n records of the file, in the order of the file.
MigrationImportsAll ==
    (FirstMigrationDone /\ mig.table0 = <<>> /\ WellFormedFile(file))
    => /\ GetEventCount(table) = Len(ScanLines(file))
       /\ \A i \in 1..Len(table) :
             TableRecord(table[i])
                 = [FileRecords(ScanLines(file))[i] EXCEPT !.Sequence = i]

\* C16: migration is skipped when the table is non-empty.  A call of
\* MigrateFileToSQLite that found a row in the table and the file in its
\* place has returned the logger at once: the table holds the rows it held,
\* no event was submitted to the logger, and the file is in its place with
\* the bytes it had.
MigrationSkipped ==
    (mig.pc # "none" /\ mig.inst = inst /\ mig.table0 # <<>> /\ disk.exists)
    => /\ mig.pc = "done"
       /\ mig.result = "skipped"
       /\ table = mig.table0
       /\ \A i \in 1..Len(calls) : calls[i].inst < inst
       /\ file = mig.file0
       /\ ~ disk.archived

\* a migration was skipped although the file holds a record
MigrationSkippedWitness ==
    /\ mig.result = "skipped"
    /\ mig.inst = inst
    /\ table # <<>>
    /\ \E i \in 1..Len(ScanLines(file)) : LoggerLine(ScanLines(file)[i])
    /\ disk.exists

\* C18: migration never swallows a replay error.  When MigrateFileToSQLite
\* has returned and the file replay it consumed had sent an error, it has
\* returned that error, not a logger, and the file is not archived.
MigrationReportsError ==
    (mig.pc = "done" /\ mig.inst = 1 /\ rd.errs > 0)
    => mig.result = "error" /\ ~ disk.archived

\* MigrateFileToSQLite has returned again, on the same file path and table,
\* after a call of it that returned a logger after a migration
MigratedTwice == mig.inst >= 2 /\ mig.pc = "done" /\ mig.prev = "migrated"

EscapeValues ==
    {<<>>, <<97>>, <<TAB>>, <<NL>>, <<PERCENT>>, <<PLUS>>, <<SP>>, <<1>>,
     <<PERCENT, 52, 49>>, <<97, TAB, 98, SP, 99>>}

InitEscape ==
    /\ InitExt
    /\ backend \in {"file", "sqlite"}
    /\ calls \in UNION {[1..n -> {WrittenCall(EventPut, k, v) :
                                      k \in Keys, v \in EscapeValues}] :
                            n \in 0..MaxRecords}
    /\ file = WrittenFile(calls, 0)
    /\ table = WrittenTable(calls, <<>>)
    /\ inst = 2
    /\ handle = "open"
    /\ closedBy = "none"
    /\ lastSequence = NewLastSequence(backend, table)
    /\ events = [st |-> "nil", buf |-> <<>>]
    /\ errors = <<>>
    /\ wg = 0
    /\ worker = [pc |-> "none", e |-> NoEvent]
    /\ wpc = [w \in Writers |-> "idle"]
    /\ cev = [w \in Writers |-> NoEvent]
    /\ mpc = "idle"
    /\ snap = {}
    /\ replay = NoReplay
    /\ recvd = [i \in 1..Len(calls) |-> i]
    /\ written = [i \in 1..Len(calls) |-> i]
    /\ acked = Len(calls)
    /\ ended = <<"Close">>
    /\ fails = 0

SpecEscape == InitEscape /\ [][NextRecords]_vars

\* C21: escaping round trip.  For every value v that was put,
\* unescape(escape(v)) = v, and the replay of what the logger wrote
\* delivers no error and, for each Put, an event whose value equals the
\* value the Put was called with.
EscapeRoundTrip ==
    /\ \A i \in 1..Len(calls) :
          QueryUnescape(QueryEscape(calls[i].Value))
              = [ok |-> TRUE, val |-> calls[i].Value]
    /\ replay.st = "done"
       => /\ replay.err = "nil"
          /\ Len(replay.events) = Len(calls)
          /\ \A i \in 1..Len(calls) :
                replay.events[i].Value = calls[i].Value

(***************************************************************************)
(* Close: what it refuses, what happens to writes after it, calling it     *)
(* again                                                                   *)
(***************************************************************************)
\* where the logger is when a call starts: "closed" once Close() has
\* returned, "closing" while main is inside Close(), "open" before
Phase ==
    IF closedBy = "Close" THEN "closed"
    ELSE IF mpc \in {"close_wait", "close_chan", "close_file"} THEN "closing"
    ELSE "open"

\* WritePut(key, value) or WriteDelete(key) up to the send
CloseWrite(w) ==
    /\ \E k \in Keys, v \in Values :
          \/ WriteCall(w, EventPut, k, v, QueryEscape(v))
          \/ WriteCall(w, EventDelete, k, <<>>, <<>>)
    /\ phases' = Append(phases, Phase)
    /\ UNCHANGED <<store, req, rd, out, emitted, cons, mig, disk, kv, earlier>>

\* writers call WritePut and WriteDelete at any time, before, during and
\* after the Close() of the main goroutine
NextClose ==
    \/ Run
    \/ \E w \in Writers : CloseWrite(w)
    \/ \E w \in Writers : WriteSend(w)
    \/ CloseCall
    \/ CloseChan
    \/ CloseHandle
    \/ WorkerPrepare
    \/ WorkerRecv
    \/ WorkerWrite
    \/ WorkerSendErr
    \/ WorkerDone
    \/ ErrRecv

SpecClose == Init /\ [][NextClose]_vars

\* C22: closing accepts no new writes.  A call that started once Close()
\* had been invoked, during Close() or after it, is never enqueued and
\* never written.
ClosingAcceptsNoWrites ==
    \A i \in 1..Len(calls) :
        phases[i] # "open"
        => ~ calls[i].returned /\ calls[i].state = "pending"

\* C23: writes after Closed fail predictably.  A call that started after
\* Close() had returned has not returned normally and is not blocked for
\* ever on the channel, whether or not Run() had been called.
WritesAfterClosedFail ==
    \A i \in 1..Len(calls) :
        phases[i] = "closed"
        => ~ calls[i].returned /\ wpc[calls[i].caller] # "blocked"

\* C24: Close is safe after Wait, and safe to call again.  While no write
\* is outstanding, no step of Close() panics and none changes what is
\* stored.
CloseSafeAfterWait ==
    [][(/\ mpc \in {"close_chan", "close_file"}
        /\ wg = 0
        /\ \A w \in Writers : wpc[w] = "idle")
       => (closedBy' # "panic" /\ file' = file /\ table' = table)]_vars

(***************************************************************************)
(* One ReadEvents call on what a logger wrote, on a fresh logger of the    *)
(* same backend, with a consumer that keeps receiving: the log is not      *)
(* appended to while it is read.                                           *)
(***************************************************************************)
NextFinite ==
    \/ ReadEventsCall
    \/ ReaderSeek
    \/ ReaderScan
    \/ ReaderSendError
    \/ ReaderCloseError
    \/ ReaderCloseEvent
    \/ rd.pc = "send" /\ RecvEvent
    \/ out.err # <<>> /\ RecvError

\* the goroutine of the call is scheduled until it has returned, and the
\* consumer receives whenever an event is offered.  ReaderScan is enabled
\* exactly when the goroutine is at the head of its loop and always leaves
\* it, so weak fairness of ReaderScan is []<>(rd.pc # "scan").
SpecFinite ==
    /\ InitRecords
    /\ [][NextFinite]_vars
    /\ WF_vars(ReaderSeek)
    /\ []<>(rd.pc # "scan")
    /\ WF_vars(ReaderReturn)
    /\ WF_vars(rd.pc = "send" /\ RecvEvent)

\* the storage of the logger's backend holds well-formed events only
StoredWellFormed ==
    IF backend = "file" THEN WellFormedFile(file)
    ELSE \A i \in 1..Len(table) : QueryUnescape(table[i].value).ok

\* the goroutine of the ReadEvents call has returned
ReaderDone == rd.pc = "done"

RECURSIVE ApplyEvents(_, _)
ApplyEvents(evs, m) ==
    IF evs = <<>> THEN m
    ELSE ApplyEvents(Tail(evs), ApplyEvent(m, Head(evs)))

\* C26: start-up ordering.  Once Run() has been called, every event in the
\* log has been received and the store is what the events yield, applied
\* in log order to an empty map; and no write call is made on the logger
\* before initializeTransactionLog has returned.
StartupOrdering ==
    /\ events.st # "nil"
       => /\ \A i \in 1..Len(ScanLines(file)) :
                LoggerLine(ScanLines(file)[i]) => i <= Len(emitted)
          /\ store = ApplyEvents(emitted, EmptyStore)
    /\ cons.pc # "serving" => calls = <<>>

(***************************************************************************)
(* A full queue: one goroutine calls WritePut again and again on a running *)
(* logger whose worker is scheduled at any pace, until the queue of 16 is  *)
(* full and the call blocks.                                               *)
(***************************************************************************)
\* WritePut calls of the run: more than the queue holds
MaxQueueCalls == 18

InitQueue ==
    /\ FreshLogger
    /\ backend \in {"file", "sqlite"}
    /\ file = <<>>
    /\ table = <<>>
    /\ lastSequence = 0

\* WritePut("k", "a") up to the send
QueueWritePut(w) ==
    /\ Len(calls) < MaxQueueCalls
    /\ WriteStart(w, EventPut, <<107>>, <<97>>, QueryEscape(<<97>>))
    /\ UNCHANGED ext

NextQueue ==
    \/ Run
    \/ events.st = "open" /\ QueueWritePut("w1")
    \/ WriteSend("w1")
    \/ WorkerPrepare
    \/ WorkerRecv
    \/ WorkerWrite
    \/ WorkerSendErr
    \/ WorkerDone
    \/ ErrRecv

SpecQueue == InitQueue /\ [][NextQueue]_vars

\* the ids of the events in the queue
Queued == {events.buf[j].id : j \in 1..Len(events.buf)}

\* the ids of the events the worker has taken
Taken == {recvd[j] : j \in 1..Len(recvd)}

\* C27: bounded queue with backpressure.  The queue of a running logger
\* never holds more than 16 events; a call that is at its send can
\* complete it exactly when the queue holds fewer than 16; and no call
\* fails or loses its event: a call that has not returned is still at its
\* send, and the event of a call that has returned is in the queue or was
\* taken by the worker, never both.
QueueBackpressure ==
    /\ Len(events.buf) <= 16
    /\ ~ Crashed
    /\ \A w \in Writers :
          (wpc[w] = "send" /\ events.st = "open")
          => ((ENABLED WriteSend(w)) <=> Len(events.buf) < 16)
    /\ \A i \in 1..Len(calls) :
          IF calls[i].returned
          THEN (i \in Queued) # (i \in Taken)
          ELSE /\ wpc[calls[i].caller] = "send"
               /\ cev[calls[i].caller].id = i
               /\ i \notin Queued \cup Taken

\* a call is blocked on a full queue after an earlier blocked call resumed
\* when the worker took an event
QueueBackpressureWitness ==
    /\ wpc["w1"] = "send"
    /\ Len(events.buf) = 16
    /\ Len(calls) = 18
    /\ Len(recvd) = 1

(***************************************************************************)
(* The map of core.go: goroutines call Get, Put and Delete at any time,    *)
(* each call taking the lock of store, doing its statement, releasing the  *)
(* lock and returning.                                                     *)
(***************************************************************************)
\* Put and Delete calls over a whole run
MaxOps == 2

\* "k", "j"
StoreKeys == {<<107>>, <<106>>}

\* var ErrorNoSuchKey = errors.New("no such key")
ErrorNoSuchKey == "no such key"

\* a goroutine calls Get(key), Put(key, value) or Delete(key)
CallStore(g) ==
    /\ op[g].pc \in {"idle", "returned"}
    /\ \E k \in StoreKeys, v \in Values, f \in {"Get", "Put", "Delete"} :
          /\ f # "Get" => Len(hist) < MaxOps
          /\ op' = [op EXCEPT ![g] = [NoCall EXCEPT !.pc = "lock", !.fn = f,
                                          !.key = k,
                                          !.value = IF f = "Put" THEN v
                                                    ELSE <<>>]]
    /\ UNCHANGED <<core, store, req, rd, out, emitted, cons, mig, disk, mutex,
                   hist, phases, earlier>>

\* store.RLock(): waits while a writer holds the lock
RLock(g) ==
    /\ op[g].pc = "lock"
    /\ op[g].fn = "Get"
    /\ mutex.w = "none"
    /\ mutex' = [mutex EXCEPT !.r = @ \cup {g}]
    /\ op' = [op EXCEPT ![g].pc = "body"]
    /\ UNCHANGED <<core, store, req, rd, out, emitted, cons, mig, disk, hist, phases, earlier>>

\* a Lock() that does not wait for the readers and the writer
LockNoWait(g) ==
    /\ op[g].pc = "lock"
    /\ op[g].fn \in {"Put", "Delete"}
    /\ mutex' = [mutex EXCEPT !.w = g]
    /\ op' = [op EXCEPT ![g].pc = "body"]
    /\ UNCHANGED <<core, store, req, rd, out, emitted, cons, mig, disk, hist, phases, earlier>>

\* store.Lock(): waits while a writer or a reader holds the lock
Lock(g) ==
    /\ op[g].pc = "lock"
    /\ op[g].fn \in {"Put", "Delete"}
    /\ mutex.w = "none"
    /\ mutex.r = {}
    /\ mutex' = [mutex EXCEPT !.w = g]
    /\ op' = [op EXCEPT ![g].pc = "body"]
    /\ UNCHANGED <<core, store, req, rd, out, emitted, cons, mig, disk, hist, phases, earlier>>

\* Get: value, ok := store.m[key]
Get(g) ==
    /\ op[g].pc = "body"
    /\ op[g].fn = "Get"
    /\ op' = [op EXCEPT ![g].pc = "unlock",
                        ![g].ok = op[g].key \in DOMAIN store,
                        ![g].value = IF op[g].key \in DOMAIN store
                                     THEN store[op[g].key] ELSE <<>>,
                        ![g].at = Len(hist)]
    /\ UNCHANGED <<core, store, req, rd, out, emitted, cons, mig, disk, mutex,
                   hist, phases, earlier>>

\* Put: store.m[key] = value
Put(g) ==
    /\ op[g].pc = "body"
    /\ op[g].fn = "Put"
    /\ store' = StorePut(store, op[g].key, op[g].value)
    /\ hist' = Append(hist, [fn |-> "Put", key |-> op[g].key,
                             value |-> op[g].value])
    /\ op' = [op EXCEPT ![g].pc = "unlock", ![g].at = Len(hist) + 1]
    /\ UNCHANGED <<core, req, rd, out, emitted, cons, mig, disk, mutex, phases, earlier>>

\* Delete: delete(store.m, key)
Delete(g) ==
    /\ op[g].pc = "body"
    /\ op[g].fn = "Delete"
    /\ store' = StoreDelete(store, op[g].key)
    /\ hist' = Append(hist, [fn |-> "Delete", key |-> op[g].key,
                             value |-> <<>>])
    /\ op' = [op EXCEPT ![g].pc = "unlock", ![g].at = Len(hist) + 1]
    /\ UNCHANGED <<core, req, rd, out, emitted, cons, mig, disk, mutex, phases, earlier>>

\* store.RUnlock() of Get, store.Unlock() of Put and Delete
Unlock(g) ==
    /\ op[g].pc = "unlock"
    /\ mutex' = IF op[g].fn = "Get" THEN [mutex EXCEPT !.r = @ \ {g}]
                ELSE [mutex EXCEPT !.w = "none"]
    /\ op' = [op EXCEPT ![g].pc = "return"]
    /\ UNCHANGED <<core, store, req, rd, out, emitted, cons, mig, disk, hist, phases, earlier>>

\* the return statement: Get returns "", ErrorNoSuchKey when !ok and
\* value, nil otherwise; Put and Delete return nil
Return(g) ==
    /\ op[g].pc = "return"
    /\ op' = [op EXCEPT
                ![g].pc = "returned",
                ![g].value = IF op[g].fn = "Get" /\ ~ op[g].ok THEN <<>>
                             ELSE @,
                ![g].err = IF op[g].fn = "Get" /\ ~ op[g].ok
                           THEN ErrorNoSuchKey ELSE "nil"]
    /\ UNCHANGED <<core, store, req, rd, out, emitted, cons, mig, disk, mutex,
                   hist, phases, earlier>>

NextStore ==
    \/ \E g \in Writers : CallStore(g)
    \/ \E g \in Writers : RLock(g)
    \/ \E g \in Writers : Lock(g)
    \/ \E g \in Writers : Get(g)
    \/ \E g \in Writers : Put(g)
    \/ \E g \in Writers : Delete(g)
    \/ \E g \in Writers : Unlock(g)
    \/ \E g \in Writers : Return(g)

\* the process has started: the map is empty, no call is under way
InitStore == Init /\ backend = "file"

SpecStore == InitStore /\ [][NextStore]_vars

\* what Get(k) has to return after the Put and Delete calls h: the value
\* of the last Put(k, v) when no Delete(k) came after it
RECURSIVE Expected(_, _)
Expected(h, k) ==
    IF h = <<>> THEN [value |-> <<>>, err |-> ErrorNoSuchKey]
    ELSE IF h[Len(h)].key # k THEN Expected(SubSeq(h, 1, Len(h) - 1), k)
    ELSE IF h[Len(h)].fn = "Put"
         THEN [value |-> h[Len(h)].value, err |-> "nil"]
         ELSE [value |-> <<>>, err |-> ErrorNoSuchKey]

\* the keys that hold a value after the Put and Delete calls h
Held(h) == {k \in StoreKeys : Expected(h, k).err = "nil"}

\* C28: in-memory map semantics.  A goroutine is at the statement of its
\* call only while it holds the lock, a writer alone and readers without a
\* writer, so each call takes effect in one piece; the map holds, for each
\* key, the value of the most recent Put not followed by a Delete, and
\* nothing for a key never put or deleted (a Delete of an absent key
\* changes nothing); a Get that has returned returned that value, or
\* ErrorNoSuchKey, as of the moment it took effect; Put and Delete
\* returned nil.
MapSemantics ==
    /\ \A g \in Writers :
          op[g].pc \in {"body", "unlock"}
          => IF op[g].fn = "Get" THEN g \in mutex.r /\ mutex.w = "none"
             ELSE mutex.w = g /\ mutex.r = {}
    /\ DOMAIN store = Held(hist)
    /\ \A k \in DOMAIN store : store[k] = Expected(hist, k).value
    /\ \A g \in Writers :
          op[g].pc = "returned"
          => IF op[g].fn = "Get"
             THEN [value |-> op[g].value, err |-> op[g].err]
                      = Expected(SubSeq(hist, 1, op[g].at), op[g].key)
             ELSE op[g].err = "nil"

\* a Get has returned ErrorNoSuchKey for a key that was put and then
\* deleted, while the other goroutine has put the key again since
MapSemanticsWitness ==
    \E g \in Writers :
        /\ op[g].pc = "returned"
        /\ op[g].fn = "Get"
        /\ op[g].err = ErrorNoSuchKey
        /\ op[g].at = 2
        /\ Len(hist) = 3
        /\ hist[1].fn = "Put" /\ hist[1].key = op[g].key
        /\ hist[2].fn = "Delete" /\ hist[2].key = op[g].key
        /\ hist[3].fn = "Put" /\ hist[3].key = op[g].key

(***************************************************************************)
(* A file logger on the log an earlier instance wrote: it replays the log, *)
(* runs, persists further events with keys of any bytes, and is waited     *)
(* for.                                                                    *)
(***************************************************************************)
\* the calls made on the live instance
Mine == {i \in 1..Len(calls) : calls[i].inst = inst}

InitTrack == InitRecords /\ backend = "file"

\* WritePut(key, "a") on the live instance, up to the send
TrackWritePut(w) ==
    /\ Cardinality(Mine) < MaxRecords
    /\ \E k \in AnyKeys :
          WriteStart(w, EventPut, k, <<97>>, QueryEscape(<<97>>))
    /\ UNCHANGED ext

NextTrack ==
    \/ events.st = "nil" /\ replay.st = "none" /\ ReadEvents
    \/ replay.st = "done" /\ Run
    \/ InUse /\ events.st = "open" /\ TrackWritePut("w1")
    \/ WriteSend("w1")
    \/ WorkerRecv
    \/ WorkerWrite
    \/ WorkerSendErr
    \/ WorkerDone
    \/ ErrRecv
    \/ InUse /\ events.st = "open" /\ WaitCall

SpecTrack == InitTrack /\ [][NextTrack]_vars

\* the sequence of the last event of the log that was replayed
ReplayedLast ==
    IF replay.events = <<>> THEN 0
    ELSE replay.events[Len(replay.events)].Sequence

\* C29: lastSequence tracks the highest persisted sequence.  The live file
\* logger replayed a log without error, its last event having sequence n,
\* then persisted the events of k calls without failure, and Wait
\* returned: its records follow the log and carry the sequences n+1..n+k,
\* its lastSequence is n+k, and a fresh instance that replays the file
\* ends with lastSequence n+k.
LastSequenceTracks ==
    (/\ replay.st = "done" /\ replay.err = "nil"
     /\ mpc = "waited" /\ wg = 0 /\ fails = 0
     /\ \A i \in Mine : calls[i].state = "written")
    => /\ lastSequence = ReplayedLast + Cardinality(Mine)
       /\ file = WrittenFile(SubSeq(calls, 1, Len(calls) - Cardinality(Mine)),
                             0)
                 \o WrittenFile(SubSeq(calls,
                                       Len(calls) - Cardinality(Mine) + 1,
                                       Len(calls)), ReplayedLast)
       /\ FileReadEvents(file, TRUE, 0).last
              = ReplayedLast + Cardinality(Mine)

\* s is a prefix of t
IsPrefix(s, t) == Len(s) <= Len(t) /\ SubSeq(t, 1, Len(s)) = s

\* C30: storage is append-only.  Every step of the logger, of its callers
\* and of its worker leaves the bytes of the file and the rows of the
\* table as they were, or adds to their end: every record, a line ended by
\* "\n" or a row, stays where it is and as it is.
AppendOnly ==
    [][IsPrefix(file, file') /\ IsPrefix(table, table')]_vars

\* a second instance has replayed the log of the first and has written a
\* record after it
AppendOnlyWitness ==
    /\ inst = 2
    /\ replay.st = "done"
    /\ replay.events # <<>>
    /\ \E i \in 1..Len(written) : calls[written[i]].inst = 2

(***************************************************************************)
(* A second ReadEvents call on one logger instance: the log a logger       *)
(* wrote is replayed by a fresh logger of either backend, whose consumer   *)
(* receives until both channels are closed, and ReadEvents is then called  *)
(* again on the same instance.                                             *)
(***************************************************************************)
\* ReadEvents() called again on the instance whose first call delivered
\* replay; emitted keeps the events received from the first call
ReadEventsAgain ==
    /\ ~ Crashed
    /\ MainFree
    /\ wg = 0
    /\ replay.st = "done"
    /\ replay' = [st |-> "again", events |-> ReadResult.events,
                  err |-> ReadResult.err]
    /\ lastSequence' = ReadResult.last
    /\ emitted' = replay.events
    /\ UNCHANGED <<backend, file, table, inst, handle, closedBy, events, errors,
                   wg, worker, wpc, cev, mpc, snap, calls, recvd, written,
                   acked, ended, fails>>
    /\ UNCHANGED <<store, req, rd, out, cons, mig, disk, kv, phases, earlier>>

NextAgain ==
    \/ replay.st = "none" /\ ReadEvents
    \/ ReadEventsAgain

SpecAgain == InitRecords /\ [][NextAgain]_vars

\* C31: replay is one-shot per instance.  When the first ReadEvents call of
\* an instance emitted events, a further call on the same instance does not
\* emit that sequence again, in both backends.
ReplayOneShot ==
    (replay.st = "again" /\ emitted # <<>>) => replay.events # emitted

(***************************************************************************)
(* Err(): which failure a receive yields                                   *)
(***************************************************************************)
\* the calls of the live instance whose state is in `states`, in the order
\* the worker received their events
InOrder(states) ==
    LET Among(i) == calls[i].inst = inst /\ calls[i].state \in states
    IN  SelectSeq(recvd, Among)

\* the writes that failed, the latest last: the worker has sent the error
\* of a "reported" one and is at the send for a "failed" one
FailedWrites == InOrder({"failed", "reported"})

\* the call whose error a receive from Err() yields now: the channel is
\* first in first out, and holds the latest Len(errors) errors sent
HeadError ==
    InOrder({"reported"})[Len(InOrder({"reported"})) - Len(errors) + 1]

\* C32: Err() exposes the most recent background-write failure.  Whenever a
\* receive from Err() can yield the error of a failed write, it is the
\* error of the write that failed last.
ErrYieldsMostRecent ==
    (errors # <<>> /\ Head(errors) = "cannot write")
    => /\ FailedWrites # <<>>
       /\ HeadError = FailedWrites[Len(FailedWrites)]

(***************************************************************************)
(* Run() called again on a logger that is running: the logger gets new     *)
(* channels and a new goroutine, and the goroutine of the earlier call     *)
(* keeps the channels it was started with.  One writer calls WritePut, the *)
(* main goroutine calls Run, Wait and Close.                               *)
(***************************************************************************)
\* Run() calls on one logger instance
MaxRuns == 2

\* Run() on a logger that has channels already: l.events and l.errors are
\* replaced, the goroutine of the earlier call goes on with its own
RunAgain ==
    /\ ~ Crashed
    /\ MainFree
    /\ events.st # "nil"
    /\ Len(earlier) < MaxRuns - 1
    /\ earlier' = Append(earlier, [pc |-> worker.pc, e |-> worker.e,
                                   events |-> events, errors |-> errors])
    /\ events' = [st |-> "open", buf |-> <<>>]
    /\ errors' = <<>>
    /\ worker' = [pc |-> IF backend = "sqlite" THEN "prepare" ELSE "recv",
                  e |-> NoEvent]
    /\ UNCHANGED <<backend, file, table, inst, handle, closedBy, lastSequence,
                   wg, wpc, cev, mpc, snap, replay, calls, recvd, written,
                   acked, ended, fails>>
    /\ UNCHANGED <<store, req, rd, out, emitted, cons, mig, disk, kv, phases>>

\* l.db.Prepare(...) of an earlier SQLite goroutine
EarlierPrepare(j) ==
    /\ ~ Crashed
    /\ earlier[j].pc = "prepare"
    /\ earlier' =
          IF handle = "open" THEN [earlier EXCEPT ![j].pc = "recv"]
          ELSE [earlier EXCEPT ![j].pc = "exit",
                               ![j].errors = Append(@, "failed to prepare insert statement")]
    /\ UNCHANGED <<core, store, req, rd, out, emitted, cons, mig, disk, kv,
                   phases>>

\* for e := range events of an earlier goroutine, on the channel of its own
\* Run() call
EarlierRecv(j) ==
    /\ ~ Crashed
    /\ earlier[j].pc = "recv"
    /\ \/ /\ earlier[j].events.buf # <<>>
          /\ earlier' = [earlier EXCEPT ![j].pc = "write",
                                        ![j].e = Head(earlier[j].events.buf),
                                        ![j].events.buf = Tail(@)]
          /\ recvd' = Append(recvd, Head(earlier[j].events.buf).id)
       \/ /\ earlier[j].events.buf = <<>>
          /\ earlier[j].events.st = "closed"
          /\ earlier' = [earlier EXCEPT ![j].pc = "exit"]
          /\ UNCHANGED recvd
    /\ UNCHANGED <<backend, file, table, inst, handle, closedBy, lastSequence,
                   events, errors, wg, worker, wpc, cev, mpc, snap, replay,
                   calls, written, acked, ended, fails>>
    /\ UNCHANGED <<store, req, rd, out, emitted, cons, mig, disk, kv, phases>>

\* fmt.Fprintf / stmt.Exec of an earlier goroutine: it writes to the same
\* storage and counts on the same l.lastSequence
EarlierWrite(j) ==
    /\ ~ Crashed
    /\ earlier[j].pc = "write"
    /\ \/ /\ handle = "open"
          /\ IF backend = "file"
             THEN /\ lastSequence' = FileNextSequence(lastSequence)
                  /\ file' = file \o FormatRecord(FileNextSequence(lastSequence),
                                                  earlier[j].e.EventType,
                                                  earlier[j].e.Key,
                                                  earlier[j].e.Value)
                  /\ UNCHANGED table
             ELSE /\ table' = Append(table, InsertedRow(table, earlier[j].e))
                  /\ lastSequence' = InsertedRow(table, earlier[j].e).id
                  /\ UNCHANGED file
          /\ written' = Append(written, earlier[j].e.id)
          /\ calls' = [calls EXCEPT ![earlier[j].e.id].state = "written"]
          /\ earlier' = [earlier EXCEPT ![j].pc = "done"]
          /\ UNCHANGED fails
       \/ /\ \/ handle = "closed" /\ UNCHANGED fails
             \/ handle = "open" /\ fails < MaxFailures /\ fails' = fails + 1
          /\ lastSequence' = IF backend = "file"
                             THEN FileNextSequence(lastSequence)
                             ELSE lastSequence
          /\ calls' = [calls EXCEPT ![earlier[j].e.id].state = "failed"]
          /\ earlier' = [earlier EXCEPT ![j].pc = "senderr"]
          /\ UNCHANGED <<file, table, written>>
    /\ UNCHANGED <<backend, inst, handle, closedBy, events, errors, wg, worker,
                   wpc, cev, mpc, snap, replay, recvd, acked, ended>>
    /\ UNCHANGED <<store, req, rd, out, emitted, cons, mig, disk, kv, phases>>

\* errors <- fmt.Errorf(...) of an earlier goroutine, on its own channel
EarlierSendErr(j) ==
    /\ ~ Crashed
    /\ earlier[j].pc = "senderr"
    /\ Len(earlier[j].errors) < ErrorsCap
    /\ earlier' = [earlier EXCEPT ![j].pc = "done",
                                  ![j].errors = Append(@, "cannot write")]
    /\ calls' = [calls EXCEPT ![earlier[j].e.id].state = "reported"]
    /\ UNCHANGED <<backend, file, table, inst, handle, closedBy, lastSequence,
                   events, errors, wg, worker, wpc, cev, mpc, snap, replay,
                   recvd, written, acked, ended, fails>>
    /\ UNCHANGED <<store, req, rd, out, emitted, cons, mig, disk, kv, phases>>

\* l.wg.Done() of an earlier goroutine: the wait group is the logger's
EarlierDone(j) ==
    /\ ~ Crashed
    /\ earlier[j].pc = "done"
    /\ wg' = wg - 1
    /\ earlier' = [earlier EXCEPT ![j].pc = "recv", ![j].e = NoEvent]
    /\ mpc' = IF wg = 1 THEN Released(mpc) ELSE mpc
    /\ acked' = IF wg = 1 /\ mpc = "wait" THEN Len(written) ELSE acked
    /\ UNCHANGED <<backend, file, table, inst, handle, closedBy, lastSequence,
                   events, errors, worker, wpc, cev, snap, replay, calls,
                   recvd, written, ended, fails>>
    /\ UNCHANGED <<store, req, rd, out, emitted, cons, mig, disk, kv, phases>>

\* Run() is called on a logger that Close() has not returned from
NextRuns ==
    \/ closedBy = "none" /\ Run
    \/ closedBy = "none" /\ RunAgain
    \/ WritePut("w1")
    \/ WriteSend("w1")
    \/ WaitCall
    \/ CloseCall
    \/ CloseChan
    \/ CloseHandle
    \/ WorkerPrepare
    \/ WorkerRecv
    \/ WorkerWrite
    \/ WorkerSendErr
    \/ WorkerDone
    \/ ErrRecv
    \/ \E j \in 1..Len(earlier) : EarlierPrepare(j)
    \/ \E j \in 1..Len(earlier) : EarlierRecv(j)
    \/ \E j \in 1..Len(earlier) : EarlierWrite(j)
    \/ \E j \in 1..Len(earlier) : EarlierSendErr(j)
    \/ \E j \in 1..Len(earlier) : EarlierDone(j)

SpecRuns == Init /\ [][NextRuns]_vars

\* a goroutine at pc has been started and has not returned
Live(pc) == pc \notin {"none", "exit"}

\* the writer goroutines of the logger that are alive
Alive ==
    {j \in 1..Len(earlier) : Live(earlier[j].pc)}
        \cup (IF Live(worker.pc) THEN {0} ELSE {})

\* C33: one worker per logger.  At every moment at most one writer goroutine
\* of the logger instance is alive, Run() being called once or more.
OneWorkerPerLogger == ~ Crashed => Cardinality(Alive) <= 1

\* every goroutine that can take a step is scheduled: the writer goroutines
\* of Run(), the main goroutine inside Close() and the caller of WritePut
\* at its send.  Nothing obliges anyone to receive from Err() or to call a
\* public method.
SpecRunsFair ==
    /\ SpecRuns
    /\ WF_vars(WriteSend("w1"))
    /\ WF_vars(WorkerPrepare)
    /\ WF_vars(WorkerRecv)
    /\ WF_vars(WorkerWrite)
    /\ WF_vars(WorkerSendErr)
    /\ WF_vars(WorkerDone)
    /\ WF_vars(CloseChan)
    /\ WF_vars(CloseHandle)
    /\ WF_vars(\E j \in 1..Len(earlier) : EarlierPrepare(j))
    /\ WF_vars(\E j \in 1..Len(earlier) : EarlierRecv(j))
    /\ WF_vars(\E j \in 1..Len(earlier) : EarlierWrite(j))
    /\ WF_vars(\E j \in 1..Len(earlier) : EarlierSendErr(j))
    /\ WF_vars(\E j \in 1..Len(earlier) : EarlierDone(j))

\* Close() has returned
CloseReturned == mpc = "closed" /\ closedBy = "Close"

\* C34: Close stops the worker.  Once Close() has returned, every writer
\* goroutine that Run() started on the instance eventually leaves its loop
\* (a panic ends them with the process).
CloseStopsWorker == CloseReturned ~> (Crashed \/ Alive = {})

(***************************************************************************)
(* ReadEvents and Run on one instance: a fresh logger on the log an        *)
(* earlier instance wrote is started with Run() and replays with           *)
(* ReadEvents(), in either order, while a writer calls WritePut.           *)
(***************************************************************************)
InitShared == InitRecords /\ \A i \in 1..Len(calls) : calls[i].Key \in Keys

\* one iteration of the loop of ReadEvents on the head of rd.lines, with
\* l.lastSequence as it is when the iteration runs
SharedItem == ScanItem(rd.src, Head(rd.lines), rd.e, lastSequence)

\* scanner.Scan() or rows.Next() and the loop body up to its send, on a
\* logger whose l.lastSequence the goroutine of Run() changes as well
ReaderScanShared ==
    /\ rd.pc = "scan"
    /\ rd' = IF rd.lines = <<>> THEN [rd EXCEPT !.pc = "closeerr"]
             ELSE Scanned(SharedItem)
    /\ lastSequence' = IF rd.lines = <<>> THEN lastSequence
                       ELSE SharedItem.last
    /\ UNCHANGED <<backend, file, table, inst, handle, closedBy, events, errors,
                   wg, worker, wpc, cev, mpc, snap, replay, calls, recvd,
                   written, acked, ended, fails>>
    /\ UNCHANGED <<store, req, out, emitted, cons, mig, disk, kv, phases,
                   earlier>>

\* WritePut(key, "a") on the live instance, up to the send
SharedWritePut(w) ==
    /\ Cardinality(Mine) < MaxCalls
    /\ \E k \in Keys : WriteStart(w, EventPut, k, <<97>>, QueryEscape(<<97>>))
    /\ UNCHANGED ext

NextShared ==
    \/ Run
    \/ ReadEventsCall
    \/ ReaderSeek
    \/ ReaderScanShared
    \/ ReaderSendError
    \/ ReaderCloseError
    \/ ReaderCloseEvent
    \/ rd.pc = "send" /\ RecvEvent
    \/ out.err # <<>> /\ RecvError
    \/ SharedWritePut("w1")
    \/ WriteSend("w1")
    \/ WorkerPrepare
    \/ WorkerRecv
    \/ WorkerWrite
    \/ WorkerSendErr
    \/ WorkerDone
    \/ ErrRecv

SpecShared == InitShared /\ [][NextShared]_vars

\* the next step of the ReadEvents goroutine reads or writes l.lastSequence:
\* the file loop when the line passed the checks on Sscanf (lines 333 and
\* 345), the SQLite loop when the value of the row decodes (line 561)
ReaderAccess ==
    /\ rd.pc = "scan"
    /\ rd.lines # <<>>
    /\ SharedItem.err \notin {"input parse error", "input wrong number parsed"}
    /\ rd.src = "sqlite" => SharedItem.err = "nil"

\* the next step of the writer goroutine reads or writes l.lastSequence:
\* l.lastSequence++ of the file worker (line 263), the assignment after a
\* successful stmt.Exec of the SQLite worker (line 494)
WorkerAccess ==
    /\ worker.pc = "write"
    /\ backend = "file" \/ handle = "open"

\* C35: no race on lastSequence.  The ReadEvents goroutine is never about
\* to read or write l.lastSequence while the writer goroutine of the same
\* instance is about to read or write it.
NoRaceOnLastSequence == ~ (ReaderAccess /\ WorkerAccess)

\* C36: a self-written log always replays without error.  A fresh file
\* logger that replays what a file logger wrote for WritePut calls with
\* values of any bytes, every write having succeeded, reaches the end of
\* the file and delivers no error.
SelfWrittenReplays ==
    (backend = "file" /\ replay.st = "done") => replay.err = "nil"

(***************************************************************************)
(* Migration after a failed migration: MigrateFileToSQLite returned an     *)
(* error, the process ends, and the next process calls it again on the     *)
(* same file path and table.                                               *)
(***************************************************************************)
\* MigrateFileToSQLite up to `if count > 0`, called again after a call
\* that returned an error
MigrateRetry ==
    /\ ~ Crashed
    /\ mig.pc = "done"
    /\ mig.result = "error"
    /\ mig.inst < inst
    /\ handle = "open"
    /\ events.st = "nil"
    /\ mpc = "idle"
    /\ mig' = [pc |-> Statted.pc, result |-> Statted.result, inst |-> inst,
               file0 |-> file, table0 |-> table, prev |-> mig.result]
    /\ UNCHANGED <<core, store, req, rd, out, emitted, cons, disk, kv, phases,
                   earlier>>

\* MigrateFileToSQLite has returned an error to the live process
MigrationFailed == mig.pc = "done" /\ mig.result = "error" /\ mig.inst = inst

NextRetry ==
    \/ NextMigrate
    \/ MigrationFailed /\ AbruptClose
    \/ MigrationFailed /\ OpenNew
    \/ MigrateRetry

SpecRetry == InitMigrate /\ [][NextRetry]_vars

\* C37: migration is all-or-nothing.  When a call of MigrateFileToSQLite has
\* returned and no write to the table has failed, the rows imported so far
\* are none or one per line of the file; and no call skips the migration
\* after a call that returned an error and left imported rows.
MigrationAllOrNothing ==
    (mig.pc = "done" /\ fails = 0)
    => /\ Len(written) \in {0, Len(ScanLines(file))}
       /\ ~ (mig.result = "skipped" /\ mig.prev = "error" /\ written # <<>>)

\* C38: a write issued before Run() is not lost.  A WritePut call that
\* reached its send before Run() was called returns once Run() has been
\* called (or the process has ended in a panic).
WriteBeforeRunReturns ==
    (wpc["w1"] = "blocked" /\ events.st = "open")
        ~> (Crashed \/ wpc["w1"] = "idle")

====
